---- MODULE Spec2Model ----
(***************************************************************************)
(* Response-compression middleware (src/index.js).                         *)
(*                                                                         *)
(* One middleware instance (the options it was constructed with) decorates *)
(* the responses in Resp.  For every response the model keeps the closure  *)
(* variables of compression(req, res, next) (ended, length, listeners,     *)
(* stream), the raw transport the middleware intercepts (its header flag,  *)
(* its header fields, the calls made to the original write/end/on), the    *)
(* zlib transform (its writable queue, its readable buffer, its flow       *)
(* state) and what the application has passed in and got back.             *)
(*                                                                         *)
(* The collaborators the source requires (zlib, accepts, compressible,     *)
(* vary, on-headers, bytes, the http response) are modelled at the         *)
(* interface index.js uses; where their answer is not decided by index.js  *)
(* (the result of a downstream write, when a codec emits its output) it is *)
(* a nondeterministic input of the action.                                 *)
(***************************************************************************)
EXTENDS Integers, Sequences, FiniteSets, TLC

(***************************************************************************)
(* Bounds of the model.                                                    *)
(***************************************************************************)
NumResp == 2        \* responses decorated by the one middleware instance
MaxWrites == 1      \* calls of res.write per response
MaxEnds == 2        \* calls of res.end per response
MaxLexemes == 3     \* lexemes of a Cache-Control value

Resp == 1..NumResp

(***************************************************************************)
(* Values.                                                                 *)
(***************************************************************************)
\* `let length;` and a header getHeader() does not find: JavaScript undefined.
\* A length is a byte count, so a negative number stands for "no number".
undefined == -1

\* JavaScript null, as the value of `listeners` after nocompress().
null == << <<"null", "null">> >>

\* `let stream;` before a transform is created.
NoStream == "undefined"

Encodings == <<"br", "gzip", "deflate">>

RECURSIVE Concat(_)
Concat(ss) == IF ss = <<>> THEN <<>> ELSE Head(ss) \o Concat(Tail(ss))

RECURSIVE Count(_, _)
Count(s, x) ==
  IF s = <<>> THEN 0 ELSE (IF Head(s) = x THEN 1 ELSE 0) + Count(Tail(s), x)

(***************************************************************************)
(* Chunks.  A chunk is what the application passes to write/end: a Buffer  *)
(* (data = its bytes), a string (data = its characters: character codes    *)
(* below 128 for utf8, hex digits 0..15 for hex) or nothing.               *)
(***************************************************************************)
Buf(bytes) == [kind |-> "buffer", data |-> bytes]
Str(chars) == [kind |-> "string", data |-> chars]
NoChunk == [kind |-> "undefined", data |-> <<>>]

\* JavaScript truthiness of a chunk: undefined/null and "" are falsy, any
\* Buffer (also an empty one) is truthy.
Truthy(chunk) ==
  \/ chunk.kind = "buffer"
  \/ chunk.kind = "string" /\ chunk.data # <<>>

\* Buffer.from(string, encoding): hex digits pair up into bytes (an odd last
\* digit is dropped), utf8 characters below 128 are one byte each.
RECURSIVE HexBytes(_)
HexBytes(d) ==
  IF Len(d) < 2 THEN <<>>
  ELSE <<16 * d[1] + d[2]>> \o HexBytes(SubSeq(d, 3, Len(d)))

BufferFrom(chars, encoding) ==
  IF encoding = "hex" THEN HexBytes(chars) ELSE chars

\* Buffer.byteLength(string, encoding)
ByteLength(chars, encoding) ==
  IF encoding = "hex" THEN Len(chars) \div 2 ELSE Len(chars)

toBuffer(chunk, encoding) ==
  IF chunk.kind = "buffer" THEN chunk.data ELSE BufferFrom(chunk.data, encoding)

\* chunkLength that takes the length of a string for its length in bytes.
chunkLength_IgnoresEncoding(chunk, encoding) ==
  IF ~Truthy(chunk) THEN 0 ELSE Len(chunk.data)

chunkLength(chunk, encoding) ==
  IF ~Truthy(chunk) THEN 0
  ELSE IF chunk.kind = "buffer" THEN Len(chunk.data)
  ELSE ByteLength(chunk.data, encoding)

\* The arguments the application calls write and end with.
Arg(chunk, encoding) == [chunk |-> chunk, encoding |-> encoding]

WriteArgs == { Arg(Buf(<<1>>), "undefined"), Arg(Str(<<0, 4, 0, 5>>), "hex") }

EndArgs ==
  { Arg(Str(<<2, 3>>), "utf8"), Arg(NoChunk, "undefined"), Arg(Str(<<>>), "utf8") }

(***************************************************************************)
(* The codecs, as far as index.js sees them: a transform that takes bytes  *)
(* in and gives encoded bytes out, not one-to-one with the chunks it was   *)
(* given.  An encoded byte carries its codec, so that only the matching    *)
(* decoder gives the byte back.                                            *)
(***************************************************************************)
CodecBase(method) ==
  CASE method = "br" -> 100
    [] method = "gzip" -> 200
    [] method = "deflate" -> 300
    [] OTHER -> 0

Encode(method, bytes) == [i \in 1..Len(bytes) |-> bytes[i] + CodecBase(method)]

Decode(method, bytes) == [i \in 1..Len(bytes) |-> bytes[i] - CodecBase(method)]

(***************************************************************************)
(* Response headers: a function from the names of the fields that are set  *)
(* to their values.  Content-Type and Content-Encoding are strings,        *)
(* Content-Length is a number, Cache-Control is the sequence of the        *)
(* lexemes of its value, Vary is the sequence of the field names listed.   *)
(***************************************************************************)
NoHeaders == [n \in {} |-> 0]

hasHeader(headers, name) == name \in DOMAIN headers

setHeader(headers, name, value) ==
  [n \in DOMAIN headers \cup {name} |-> IF n = name THEN value ELSE headers[n]]

removeHeader(headers, name) == [n \in DOMAIN headers \ {name} |-> headers[n]]

\* What the application may set before the headers are sent.
ContentTypes == {"text/plain", "image/jpeg"}
CacheControls == { <<"no-transform">> }
ContentLengths == {1, 2}
ContentEncodings == {"identity", "x-custom"}
Varies == { <<"Accept-Encoding">>, <<"Origin">> }

HeaderValues(name) ==
  CASE name = "Content-Type" -> ContentTypes
    [] name = "Cache-Control" -> CacheControls
    [] name = "Content-Length" -> ContentLengths
    [] name = "Content-Encoding" -> ContentEncodings
    [] name = "Vary" -> Varies

HeaderNames ==
  {"Content-Type", "Cache-Control", "Content-Length", "Content-Encoding", "Vary"}

(***************************************************************************)
(* Negotiator.                                                             *)
(***************************************************************************)
\* compressible(type): the MIME table, on the types of ContentTypes.
compressible(type) == type \in {"text/plain", "text/html", "application/json"}

\* shouldCompress with the test for an absent type left out.
shouldCompress_AbsentTypePasses(headers) ==
  ~hasHeader(headers, "Content-Type") \/ compressible(headers["Content-Type"])

\* shouldCompress that does not look the type up in the table.
shouldCompress_IgnoresTable(headers) == hasHeader(headers, "Content-Type")

\* shouldCompress(req, res): the default filter.
shouldCompress(headers) ==
  IF ~hasHeader(headers, "Content-Type") \/ ~compressible(headers["Content-Type"])
  THEN FALSE
  ELSE TRUE

\* The values of Cache-Control the regular expression is tried on: up to
\* MaxLexemes lexemes, each the word no-transform, the same word in another
\* case, a word that contains it, another directive, a comma or a blank.
Lexemes == {"no-transform", "No-Transform", "xno-transform", "public", ",", " "}
CacheControlValues == UNION { [1..n -> Lexemes] : n \in 1..MaxLexemes }

\* The test without its anchors: /no-transform/.test(value).
cacheControlNoTransformRegExp_Unanchored(value) ==
  \E j \in 1..Len(value) : value[j] = "no-transform"

\* /(?:^|,)\s*?no-transform\s*?(?:,|$)/.test(value), on a value given as its
\* lexemes: the word no-transform, other words, "," and " ".
cacheControlNoTransformRegExp(value) ==
  \E j \in 1..Len(value) :
    /\ value[j] = "no-transform"
    /\ \E i \in 1..j :
         /\ \A m \in i..(j - 1) : value[m] = " "
         /\ (i = 1 \/ value[i - 1] = ",")
    /\ \E k \in j..Len(value) :
         /\ \A m \in (j + 1)..k : value[m] = " "
         /\ (k = Len(value) \/ value[k + 1] = ",")

\* shouldTransform with the negation of the test left out.
shouldTransform_Inverted(headers) ==
  \/ ~hasHeader(headers, "Cache-Control")
  \/ headers["Cache-Control"] = <<>>
  \/ cacheControlNoTransformRegExp(headers["Cache-Control"])

\* shouldTransform(req, res)
shouldTransform(headers) ==
  \/ ~hasHeader(headers, "Cache-Control")
  \/ headers["Cache-Control"] = <<>>
  \/ ~cacheControlNoTransformRegExp(headers["Cache-Control"])

\* vary that leaves the header as it is.
vary_Never(headers, field) == headers

\* vary(res, "Accept-Encoding"): the field name is appended to Vary unless
\* the header already lists it.
vary(headers, field) ==
  IF ~hasHeader(headers, "Vary") THEN setHeader(headers, "Vary", <<field>>)
  ELSE IF \E i \in 1..Len(headers["Vary"]) : headers["Vary"][i] = field
       THEN headers
       ELSE setHeader(headers, "Vary", Append(headers["Vary"], field))

\* accepts(req).encoding(encoding) on an Accept-Encoding value given as its
\* elements [enc, q] (q in tenths); <<>> is a request without the header.
\* An element naming the encoding decides before a wildcard does; among
\* those of the same kind the highest q decides; q = 0 excludes.
Q(e, q) == [enc |-> e, q |-> q]

MaxQ(accept, e) ==
  LET qs == { accept[i].q : i \in { i \in 1..Len(accept) : accept[i].enc = e } }
  IN  IF qs = {} THEN undefined ELSE CHOOSE q \in qs : \A p \in qs : p <= q

acceptsEncoding(accept, encoding) ==
  IF MaxQ(accept, encoding) # undefined THEN MaxQ(accept, encoding) > 0
  ELSE IF MaxQ(accept, "*") # undefined THEN MaxQ(accept, "*") > 0
  ELSE FALSE

AcceptEncodings ==
  { <<>>,
    <<Q("gzip", 10)>>,
    <<Q("br", 10)>>,
    <<Q("br", 10), Q("gzip", 10)>>,
    <<Q("gzip", 10), Q("deflate", 10)>>,
    <<Q("deflate", 10), Q("gzip", 10)>>,
    <<Q("gzip", 10), Q("deflate", 10), Q("br", 10)>>,
    <<Q("gzip", 0), Q("deflate", 10)>>,
    <<Q("*", 10)>>,
    <<Q("bogus", 10)>> }

Methods == {"GET", "HEAD"}

(***************************************************************************)
(* Options of compression(options).                                        *)
(***************************************************************************)
defaultThreshold == 1024

\* The number NaN: every comparison with it is false.
NaN == -2

\* opts.threshold: absent, a number of bytes, or a string.  A string is given
\* by what bytes.parse reads in it: the number it starts with (NaN when it
\* starts with none) and the unit that follows ("none" when the string is not
\* a number followed by a unit).
ThresholdOption(kind, number, unit) ==
  [kind |-> kind, number |-> number, unit |-> unit]

ThresholdOptions ==
  { ThresholdOption("undefined", undefined, "none"),
    ThresholdOption("number", 0, "none"),
    ThresholdOption("number", 2, "none"),
    ThresholdOption("string", 1, "kb"),          \* "1kb"
    ThresholdOption("string", NaN, "none") }     \* "garbage"

\* The bytes package that `"bytes": "^3.1.0"` resolves to: 3.1.0 and 3.1.1
\* give NaN for a string they cannot parse, 3.1.2 gives null.
BytesVersions == {"3.1.0", "3.1.2"}

UnitBytes(unit) == IF unit = "kb" THEN 1024 ELSE 1

\* bytes.parse(opts.threshold): a number is returned as it is; what is
\* neither a number nor a string gives null (here: undefined); a number with
\* a unit gives the number of bytes; any other string gives what parseInt
\* reads in it, which is NaN when it reads nothing.
bytesParse(value, version) ==
  IF value.kind = "number" THEN value.number
  ELSE IF value.kind # "string" THEN undefined
  ELSE IF value.number = NaN
       THEN (IF version = "3.1.2" THEN undefined ELSE NaN)
       ELSE UnitBytes(value.unit) * value.number

\* opts.filter: absent, or a predicate (here: one that answers a constant).
FilterOptions == {"undefined", "true", "false"}

\* opts.brotli: absent, or an object; its field enabled is true, false or
\* absent ("undefined"), e.g. an object that only carries zlib options.
BrotliOptions ==
  { [given |-> FALSE, enabled |-> "undefined"],
    [given |-> TRUE, enabled |-> "true"],
    [given |-> TRUE, enabled |-> "false"],
    [given |-> TRUE, enabled |-> "undefined"] }

\* The options, and what the build gives the middleware: a zlib with or
\* without createBrotliCompress, and a version of bytes.
Options ==
  [threshold : ThresholdOptions, filter : FilterOptions, brotli : BrotliOptions,
   supportsBrotli : BOOLEAN, bytes : BytesVersions]

\* A filter that consults the default content-type check besides opts.filter.
filter_AlsoDefault(o, headers) ==
  shouldCompress(headers) /\ o.filter # "false"

\* const filter = opts.filter || shouldCompress, applied to a response
filter(o, headers) ==
  IF o.filter = "undefined" THEN shouldCompress(headers) ELSE o.filter = "true"

\* let threshold = bytes.parse(opts.threshold); null gives defaultThreshold
threshold(o) ==
  IF bytesParse(o.threshold, o.bytes) = undefined THEN defaultThreshold
  ELSE bytesParse(o.threshold, o.bytes)

\* const brotli = opts.brotli || { enabled: true };
\* const brotliEnabled = brotli.enabled && supportsBrotli;
brotliEnabled(o) ==
  LET enabled == IF o.brotli.given THEN o.brotli.enabled ELSE "true"
  IN  enabled = "true" /\ o.supportsBrotli

(***************************************************************************)
(* State.  Every variable is a function of the response, except opts.      *)
(***************************************************************************)
VARIABLES
  opts,        \* the options the middleware instance was constructed with
  req,         \* the request: [method, accept]
  \* closure variables of compression(req, res, next)
  ended,       \* `let ended = false;`
  length,      \* `let length;`
  listeners,   \* `let listeners = [];`: buffered [type, listener] pairs
  stream,      \* `let stream;`: NoStream, or the encoding of the transform
  \* the raw transport
  header,      \* res._header: the headers have been sent
  headers,     \* the header fields as they stand
  rawCalls,    \* the calls of the original write/end, in order
  finished,    \* the original end has been called
  needDrain,   \* an original write returned false and drain is outstanding
  resOn,       \* [type, listener] pairs registered with the original on
  \* the transform
  zIn,         \* chunks written to the transform, not yet encoded
  zOut,        \* encoded bytes not yet emitted as data
  zRecv,       \* every chunk the transform was given, in order
  zEmitted,    \* every data chunk the transform emitted, in order
  paused,      \* stream.pause() without a stream.resume() since
  zEnds,       \* calls of stream.end
  zEnded,      \* the transform has emitted end
  zNeedDrain,  \* stream.write returned false and drain is outstanding
  zOn,         \* [type, listener] pairs registered with stream.on
  zFlush,      \* stream.flush() has been called
  \* what the application did and saw
  decisions,   \* runs of onResponseHeaders
  appHeaders,  \* the header fields as the application set them
  appIn,       \* the bytes of the chunks passed to write/end up to the first end
  ret,         \* the result of the last write/end
  called,      \* [listener, emitter] pairs: listener was invoked by emitter
  writes,      \* calls of res.write
  ends         \* calls of res.end

vars ==
  << opts, req, ended, length, listeners, stream, header, headers, rawCalls,
     finished, needDrain, resOn, zIn, zOut, zRecv, zEmitted, paused, zEnds,
     zEnded, zNeedDrain, zOn, zFlush, decisions, appHeaders, appIn, ret,
     called, writes, ends >>

\* The state of response r with an ended flag held once for all responses.
Cur_SharedEnded(r) ==
  [ ended |-> \E s \in Resp : ended[s],
    length |-> length[r], listeners |-> listeners[r],
    stream |-> stream[r], header |-> header[r], headers |-> headers[r],
    rawCalls |-> rawCalls[r], finished |-> finished[r],
    needDrain |-> needDrain[r], resOn |-> resOn[r], zIn |-> zIn[r],
    zOut |-> zOut[r], zRecv |-> zRecv[r], zEmitted |-> zEmitted[r],
    paused |-> paused[r], zEnds |-> zEnds[r], zEnded |-> zEnded[r],
    zNeedDrain |-> zNeedDrain[r], zOn |-> zOn[r], zFlush |-> zFlush[r],
    decisions |-> decisions[r], ret |-> ret[r], called |-> called[r] ]

\* The state of response r as one record, which the operations below map to
\* the state after them.
Cur(r) ==
  [ ended |-> ended[r], length |-> length[r], listeners |-> listeners[r],
    stream |-> stream[r], header |-> header[r], headers |-> headers[r],
    rawCalls |-> rawCalls[r], finished |-> finished[r],
    needDrain |-> needDrain[r], resOn |-> resOn[r], zIn |-> zIn[r],
    zOut |-> zOut[r], zRecv |-> zRecv[r], zEmitted |-> zEmitted[r],
    paused |-> paused[r], zEnds |-> zEnds[r], zEnded |-> zEnded[r],
    zNeedDrain |-> zNeedDrain[r], zOn |-> zOn[r], zFlush |-> zFlush[r],
    decisions |-> decisions[r], ret |-> ret[r], called |-> called[r] ]

\* The state of a response when compression(req, res, next) has decorated it.
Fresh ==
  [ ended |-> FALSE, length |-> undefined, listeners |-> <<>>,
    stream |-> NoStream, header |-> FALSE, headers |-> NoHeaders,
    rawCalls |-> <<>>, finished |-> FALSE, needDrain |-> FALSE,
    resOn |-> <<>>, zIn |-> <<>>, zOut |-> <<>>, zRecv |-> <<>>,
    zEmitted |-> <<>>, paused |-> FALSE, zEnds |-> 0, zEnded |-> FALSE,
    zNeedDrain |-> FALSE, zOn |-> <<>>, zFlush |-> FALSE, decisions |-> 0,
    ret |-> "none", called |-> {} ]

\* Response r takes the state t; what the application did is set by the action.
Commit(r, t) ==
  /\ ended' = [ended EXCEPT ![r] = t.ended]
  /\ length' = [length EXCEPT ![r] = t.length]
  /\ listeners' = [listeners EXCEPT ![r] = t.listeners]
  /\ stream' = [stream EXCEPT ![r] = t.stream]
  /\ header' = [header EXCEPT ![r] = t.header]
  /\ headers' = [headers EXCEPT ![r] = t.headers]
  /\ rawCalls' = [rawCalls EXCEPT ![r] = t.rawCalls]
  /\ finished' = [finished EXCEPT ![r] = t.finished]
  /\ needDrain' = [needDrain EXCEPT ![r] = t.needDrain]
  /\ resOn' = [resOn EXCEPT ![r] = t.resOn]
  /\ zIn' = [zIn EXCEPT ![r] = t.zIn]
  /\ zOut' = [zOut EXCEPT ![r] = t.zOut]
  /\ zRecv' = [zRecv EXCEPT ![r] = t.zRecv]
  /\ zEmitted' = [zEmitted EXCEPT ![r] = t.zEmitted]
  /\ paused' = [paused EXCEPT ![r] = t.paused]
  /\ zEnds' = [zEnds EXCEPT ![r] = t.zEnds]
  /\ zEnded' = [zEnded EXCEPT ![r] = t.zEnded]
  /\ zNeedDrain' = [zNeedDrain EXCEPT ![r] = t.zNeedDrain]
  /\ zOn' = [zOn EXCEPT ![r] = t.zOn]
  /\ zFlush' = [zFlush EXCEPT ![r] = t.zFlush]
  /\ decisions' = [decisions EXCEPT ![r] = t.decisions]
  /\ ret' = [ret EXCEPT ![r] = t.ret]
  /\ called' = [called EXCEPT ![r] = t.called]
  /\ UNCHANGED <<opts, req>>

(***************************************************************************)
(* The raw transport: the original write, end and on of the response.      *)
(***************************************************************************)
\* A call of the original write or end: its arguments, the function that
\* made it, and whether onResponseHeaders had run when it was made.
RawCall(t, o, chunk, encoding, via) ==
  [op |-> o, chunk |-> chunk, encoding |-> encoding, via |-> via,
   decided |-> t.decisions > 0]

\* _write.call(res, chunk, encoding), made by `via`, answering ok.  A write
\* that answers false before the response has finished leaves a drain
\* outstanding.
rawWrite(t, chunk, encoding, via, ok) ==
  [t EXCEPT !.rawCalls = Append(@, RawCall(t, "write", chunk, encoding, via)),
            !.needDrain = @ \/ (~ok /\ ~t.finished)]

\* _end.call(res, chunk, encoding), made by `via`
rawEnd(t, chunk, encoding, via) ==
  [t EXCEPT !.rawCalls = Append(@, RawCall(t, "end", chunk, encoding, via)),
            !.finished = TRUE]

\* _on.call(res, type, listener)
rawOn(t, type, listener) == [t EXCEPT !.resOn = Append(@, <<type, listener>>)]

(***************************************************************************)
(* The transform: write, end, flush, on, pause and resume of a zlib stream.*)
(***************************************************************************)
\* stream.write(buffer), answering ok
streamWrite(t, bytes, ok) ==
  [t EXCEPT !.zIn = Append(@, bytes), !.zRecv = Append(@, bytes),
            !.zNeedDrain = @ \/ ~ok]

\* stream.end(buffer)
streamEndWith(t, bytes) ==
  [t EXCEPT !.zIn = Append(@, bytes), !.zRecv = Append(@, bytes),
            !.zEnds = @ + 1]

\* stream.end()
streamEnd(t) == [t EXCEPT !.zEnds = @ + 1]

\* stream.flush()
streamFlush(t) == [t EXCEPT !.zFlush = TRUE]

\* stream.on(type, listener)
streamOn(t, type, listener) == [t EXCEPT !.zOn = Append(@, <<type, listener>>)]

\* stream.pause() and stream.resume()
streamPause(t) == [t EXCEPT !.paused = TRUE]
streamResume(t) == [t EXCEPT !.paused = FALSE]

(***************************************************************************)
(* The middleware: the functions compression(req, res, next) installs on   *)
(* the response.  t is the state of the response, o the options, q the     *)
(* request.                                                                *)
(***************************************************************************)
RECURSIVE addListenersRaw(_, _)
\* addListeners(res, _on, listeners)
addListenersRaw(t, ls) ==
  IF ls = <<>> THEN t
  ELSE addListenersRaw(rawOn(t, Head(ls)[1], Head(ls)[2]), Tail(ls))

RECURSIVE addListenersStream(_, _)
\* addListeners(stream, stream.on, listeners)
addListenersStream(t, ls) ==
  IF ls = <<>> THEN t
  ELSE addListenersStream(streamOn(t, Head(ls)[1], Head(ls)[2]), Tail(ls))

\* nocompress that forgets `listeners = null`.
nocompress_KeepsListeners(t) == addListenersRaw(t, t.listeners)

\* nocompress that drops the buffered listeners.
nocompress_NoReplay(t) == [t EXCEPT !.listeners = null]

\* function nocompress(msg)
nocompress(t) == [addListenersRaw(t, t.listeners) EXCEPT !.listeners = null]

\* The size check with a length equal to the threshold counted as below it.
belowThreshold_Inclusive(t, o) ==
  \/ /\ hasHeader(t.headers, "Content-Length")
     /\ threshold(o) # NaN
     /\ t.headers["Content-Length"] <= threshold(o)
  \/ /\ t.length # undefined
     /\ threshold(o) # NaN
     /\ t.length <= threshold(o)

\* The size check with an unknown length counted as below the threshold.
belowThreshold_UnknownIsBelow(t, o) ==
  \/ /\ hasHeader(t.headers, "Content-Length")
     /\ threshold(o) # NaN
     /\ t.headers["Content-Length"] < threshold(o)
  \/ /\ threshold(o) # NaN
     /\ t.length < threshold(o)

\* Number(res.getHeader("Content-Length")) < threshold || length < threshold;
\* a comparison with NaN or undefined is false.
belowThreshold(t, o) ==
  \/ /\ hasHeader(t.headers, "Content-Length")
     /\ threshold(o) # NaN
     /\ t.headers["Content-Length"] < threshold(o)
  \/ /\ t.length # undefined
     /\ threshold(o) # NaN
     /\ t.length < threshold(o)

\* negotiate that takes the first acceptable encoding in the order of the
\* tokens of Accept-Encoding.
negotiate_ClientOrder(o, q) ==
  LET ok(e) ==
        /\ e \in {"br", "gzip", "deflate"}
        /\ (e # "br" \/ brotliEnabled(o)) /\ acceptsEncoding(q.accept, e)
      survivors == { i \in 1..Len(q.accept) : ok(q.accept[i].enc) }
  IN  IF survivors = {} THEN "identity"
      ELSE q.accept[CHOOSE i \in survivors : \A j \in survivors : i <= j].enc

\* ["br", "gzip", "deflate"].filter(filterBrotliIfNotSupported)
\*   .filter(checkEncoding(accept))[0] || "identity"
negotiate(o, q) ==
  LET ok(e) == (e # "br" \/ brotliEnabled(o)) /\ acceptsEncoding(q.accept, e)
      survivors == { i \in 1..Len(Encodings) : ok(Encodings[i]) }
  IN  IF survivors = {} THEN "identity"
      ELSE Encodings[CHOOSE i \in survivors : \A j \in survivors : i <= j]

\* The tail of onResponseHeaders without `res.removeHeader("Content-Length")`.
compress_KeepsContentLength(t, method) ==
  LET t1 == [t EXCEPT !.stream = method]
      t2 == addListenersStream(t1, t1.listeners)
      t3 == [t2 EXCEPT !.headers = setHeader(@, "Content-Encoding", method)]
  IN  rawOn(t3, "drain", "onResponseDrain")

\* The tail of onResponseHeaders with the buffered listeners replayed onto
\* the raw transport.
compress_ListenersOnRaw(t, method) ==
  LET t1 == [t EXCEPT !.stream = method]
      t2 == addListenersRaw(t1, t1.listeners)
      t3 == [t2 EXCEPT !.headers =
               removeHeader(setHeader(@, "Content-Encoding", method),
                            "Content-Length")]
  IN  rawOn(t3, "drain", "onResponseDrain")

\* The tail of onResponseHeaders once a method is chosen: the transform is
\* created, the buffered listeners go to it, the header fields change and
\* the transform is wired to the raw transport.
compress(t, method) ==
  LET t1 == [t EXCEPT !.stream = method]
      t2 == addListenersStream(t1, t1.listeners)
      t3 == [t2 EXCEPT !.headers =
               removeHeader(setHeader(@, "Content-Encoding", method),
                            "Content-Length")]
  IN  rawOn(t3, "drain", "onResponseDrain")

\* onResponseHeaders without the check of the request method.
onResponseHeaders_NoHeadCheck(t0, o, q) ==
  LET t == [t0 EXCEPT !.decisions = @ + 1]
      varied == [t EXCEPT !.headers = vary(@, "Accept-Encoding")]
      encoding == IF hasHeader(varied.headers, "Content-Encoding")
                  THEN varied.headers["Content-Encoding"] ELSE "identity"
      method == negotiate(o, q)
  IN  IF ~filter(o, t.headers) THEN nocompress(t)
      ELSE IF ~shouldTransform(t.headers) THEN nocompress(t)
      ELSE IF belowThreshold(varied, o) THEN nocompress(varied)
      ELSE IF encoding # "identity" THEN nocompress(varied)
      ELSE IF method = "identity" THEN nocompress(varied)
      ELSE compress(varied, method)

\* onResponseHeaders with vary() called after the size check.
onResponseHeaders_VaryAfterThreshold(t0, o, q) ==
  LET t == [t0 EXCEPT !.decisions = @ + 1]
      varied == [t EXCEPT !.headers = vary(@, "Accept-Encoding")]
      encoding == IF hasHeader(varied.headers, "Content-Encoding")
                  THEN varied.headers["Content-Encoding"] ELSE "identity"
      method == negotiate(o, q)
  IN  IF ~filter(o, t.headers) THEN nocompress(t)
      ELSE IF ~shouldTransform(t.headers) THEN nocompress(t)
      ELSE IF belowThreshold(t, o) THEN nocompress(t)
      ELSE IF encoding # "identity" THEN nocompress(varied)
      ELSE IF q.method = "HEAD" THEN nocompress(varied)
      ELSE IF method = "identity" THEN nocompress(varied)
      ELSE compress(varied, method)

\* onResponseHeaders without the check of an encoding already declared.
onResponseHeaders_NoEncodingCheck(t0, o, q) ==
  LET t == [t0 EXCEPT !.decisions = @ + 1]
      varied == [t EXCEPT !.headers = vary(@, "Accept-Encoding")]
      method == negotiate(o, q)
  IN  IF ~filter(o, t.headers) THEN nocompress(t)
      ELSE IF ~shouldTransform(t.headers) THEN nocompress(t)
      ELSE IF belowThreshold(varied, o) THEN nocompress(varied)
      ELSE IF q.method = "HEAD" THEN nocompress(varied)
      ELSE IF method = "identity" THEN nocompress(varied)
      ELSE compress(varied, method)

\* onResponseHeaders without the check of a failed negotiation.
onResponseHeaders_NoIdentityCheck(t0, o, q) ==
  LET t == [t0 EXCEPT !.decisions = @ + 1]
      varied == [t EXCEPT !.headers = vary(@, "Accept-Encoding")]
      encoding == IF hasHeader(varied.headers, "Content-Encoding")
                  THEN varied.headers["Content-Encoding"] ELSE "identity"
      method == negotiate(o, q)
  IN  IF ~filter(o, t.headers) THEN nocompress(t)
      ELSE IF ~shouldTransform(t.headers) THEN nocompress(t)
      ELSE IF belowThreshold(varied, o) THEN nocompress(varied)
      ELSE IF encoding # "identity" THEN nocompress(varied)
      ELSE IF q.method = "HEAD" THEN nocompress(varied)
      ELSE compress(varied, method)

\* onResponseHeaders that takes any declared Content-Encoding as an encoding.
onResponseHeaders_AnyEncodingDeclines(t0, o, q) ==
  LET t == [t0 EXCEPT !.decisions = @ + 1]
      varied == [t EXCEPT !.headers = vary(@, "Accept-Encoding")]
      method == negotiate(o, q)
  IN  IF ~filter(o, t.headers) THEN nocompress(t)
      ELSE IF ~shouldTransform(t.headers) THEN nocompress(t)
      ELSE IF belowThreshold(varied, o) THEN nocompress(varied)
      ELSE IF hasHeader(varied.headers, "Content-Encoding") THEN nocompress(varied)
      ELSE IF q.method = "HEAD" THEN nocompress(varied)
      ELSE IF method = "identity" THEN nocompress(varied)
      ELSE compress(varied, method)

\* onHeaders(res, function onResponseHeaders() { ... })
onResponseHeaders(t0, o, q) ==
  LET t == [t0 EXCEPT !.decisions = @ + 1]
      varied == [t EXCEPT !.headers = vary(@, "Accept-Encoding")]
      encoding == IF hasHeader(varied.headers, "Content-Encoding")
                  THEN varied.headers["Content-Encoding"] ELSE "identity"
      method == negotiate(o, q)
  IN  IF ~filter(o, t.headers) THEN nocompress(t)
      ELSE IF ~shouldTransform(t.headers) THEN nocompress(t)
      ELSE IF belowThreshold(varied, o) THEN nocompress(varied)
      ELSE IF encoding # "identity" THEN nocompress(varied)
      ELSE IF q.method = "HEAD" THEN nocompress(varied)
      ELSE IF method = "identity" THEN nocompress(varied)
      ELSE compress(varied, method)

\* res.writeHead(statusCode): the listener given to onHeaders runs when the
\* headers are about to be written, and then they are sent.
writeHead(t, o, q) == [onResponseHeaders(t, o, q) EXCEPT !.header = TRUE]

\* flush that also resumes the transform.
flush_Resumes(t) ==
  IF t.stream # NoStream THEN streamResume(streamFlush(t)) ELSE t

\* flush that asks for a flush whether or not there is a transform.
flush_NoStreamTest(t) == streamFlush(t)

\* res.flush
flush(t) == IF t.stream # NoStream THEN streamFlush(t) ELSE t

\* write that does not finalize the headers first.
write_NoWriteHead(t, o, q, chunk, encoding, ok) ==
  IF t.ended THEN [t EXCEPT !.ret = "false"]
  ELSE
    LET t2 == IF t.stream # NoStream
              THEN streamWrite(t, toBuffer(chunk, encoding), ok)
              ELSE rawWrite(t, chunk, encoding, "write", ok)
    IN  [t2 EXCEPT !.ret = IF ok THEN "true" ELSE "false"]

\* write that always calls the original write.
write_AlwaysRaw(t, o, q, chunk, encoding, ok) ==
  IF t.ended THEN [t EXCEPT !.ret = "false"]
  ELSE
    LET t1 == IF ~t.header THEN writeHead(t, o, q) ELSE t
    IN  [rawWrite(t1, chunk, encoding, "write", ok) EXCEPT
           !.ret = IF ok THEN "true" ELSE "false"]

\* write without the test of `ended`.
write_NoEndedGuard(t, o, q, chunk, encoding, ok) ==
  LET t1 == IF ~t.header THEN writeHead(t, o, q) ELSE t
      t2 == IF t1.stream # NoStream
            THEN streamWrite(t1, toBuffer(chunk, encoding), ok)
            ELSE rawWrite(t1, chunk, encoding, "write", ok)
  IN  [t2 EXCEPT !.ret = IF ok THEN "true" ELSE "false"]

\* write that reports ready whatever the writer it reached answered.
write_AlwaysTrue(t, o, q, chunk, encoding, ok) ==
  IF t.ended THEN [t EXCEPT !.ret = "false"]
  ELSE
    LET t1 == IF ~t.header THEN writeHead(t, o, q) ELSE t
        t2 == IF t1.stream # NoStream
              THEN streamWrite(t1, toBuffer(chunk, encoding), ok)
              ELSE rawWrite(t1, chunk, encoding, "write", ok)
    IN  [t2 EXCEPT !.ret = "true"]

\* res.write(chunk, encoding); ok is the answer of the writer it reaches
write(t, o, q, chunk, encoding, ok) ==
  IF t.ended THEN [t EXCEPT !.ret = "false"]
  ELSE
    LET t1 == IF ~t.header THEN writeHead(t, o, q) ELSE t
        t2 == IF t1.stream # NoStream
              THEN streamWrite(t1, toBuffer(chunk, encoding), ok)
              ELSE rawWrite(t1, chunk, encoding, "write", ok)
    IN  [t2 EXCEPT !.ret = IF ok THEN "true" ELSE "false"]

\* end that ends the transform without the final chunk.
end_DropsFinalChunk(t, o, q, chunk, encoding, rawRet) ==
  IF t.ended THEN [t EXCEPT !.ret = "false"]
  ELSE
    LET estimated ==
          IF ~hasHeader(t.headers, "Content-Length")
               \/ t.headers["Content-Length"] = 0
          THEN [t EXCEPT !.length = chunkLength(chunk, encoding)]
          ELSE t
        t1 == IF ~t.header THEN writeHead(estimated, o, q) ELSE t
    IN  IF t1.stream = NoStream
        THEN [rawEnd(t1, chunk, encoding, "end") EXCEPT !.ret = rawRet]
        ELSE
          LET t2 == [t1 EXCEPT !.ended = TRUE]
          IN  [streamEnd(t2) EXCEPT !.ret = "stream"]

\* end without the test of `ended`.
end_NoEndedGuard(t, o, q, chunk, encoding, rawRet) ==
  (
    LET estimated ==
          IF ~hasHeader(t.headers, "Content-Length")
               \/ t.headers["Content-Length"] = 0
          THEN [t EXCEPT !.length = chunkLength(chunk, encoding)]
          ELSE t
        t1 == IF ~t.header THEN writeHead(estimated, o, q) ELSE t
    IN  IF t1.stream = NoStream
        THEN [rawEnd(t1, chunk, encoding, "end") EXCEPT !.ret = rawRet]
        ELSE
          LET t2 == [t1 EXCEPT !.ended = TRUE]
          IN  [(IF Truthy(chunk)
                THEN streamEndWith(t2, toBuffer(chunk, encoding))
                ELSE streamEnd(t2)) EXCEPT !.ret = "stream"]
  )

\* end that sets the flag before it tests for the transform.
end_EndedBeforeStreamTest(t, o, q, chunk, encoding, rawRet) ==
  IF t.ended THEN [t EXCEPT !.ret = "false"]
  ELSE
    LET estimated ==
          IF ~hasHeader(t.headers, "Content-Length")
               \/ t.headers["Content-Length"] = 0
          THEN [t EXCEPT !.length = chunkLength(chunk, encoding)]
          ELSE t
        t1 == IF ~t.header THEN writeHead(estimated, o, q) ELSE t
        t2 == [t1 EXCEPT !.ended = TRUE]
    IN  IF t2.stream = NoStream
        THEN [rawEnd(t2, chunk, encoding, "end") EXCEPT !.ret = rawRet]
        ELSE [(IF Truthy(chunk)
               THEN streamEndWith(t2, toBuffer(chunk, encoding))
               ELSE streamEnd(t2)) EXCEPT !.ret = "stream"]

\* end that never sets the flag.
end_NeverMarksEnded(t, o, q, chunk, encoding, rawRet) ==
  IF t.ended THEN [t EXCEPT !.ret = "false"]
  ELSE
    LET estimated ==
          IF ~hasHeader(t.headers, "Content-Length")
               \/ t.headers["Content-Length"] = 0
          THEN [t EXCEPT !.length = chunkLength(chunk, encoding)]
          ELSE t
        t1 == IF ~t.header THEN writeHead(estimated, o, q) ELSE t
    IN  IF t1.stream = NoStream
        THEN [rawEnd(t1, chunk, encoding, "end") EXCEPT !.ret = rawRet]
        ELSE [(IF Truthy(chunk)
               THEN streamEndWith(t1, toBuffer(chunk, encoding))
               ELSE streamEnd(t1)) EXCEPT !.ret = "stream"]

\* end that also calls the original end when there is a transform.
end_EndsRawDirectly(t, o, q, chunk, encoding, rawRet) ==
  IF t.ended THEN [t EXCEPT !.ret = "false"]
  ELSE
    LET estimated ==
          IF ~hasHeader(t.headers, "Content-Length")
               \/ t.headers["Content-Length"] = 0
          THEN [t EXCEPT !.length = chunkLength(chunk, encoding)]
          ELSE t
        t1 == IF ~t.header THEN writeHead(estimated, o, q) ELSE t
    IN  IF t1.stream = NoStream
        THEN [rawEnd(t1, chunk, encoding, "end") EXCEPT !.ret = rawRet]
        ELSE
          LET t2 == [t1 EXCEPT !.ended = TRUE]
              t3 == IF Truthy(chunk)
                    THEN streamEndWith(t2, toBuffer(chunk, encoding))
                    ELSE streamEnd(t2)
          IN  [rawEnd(t3, NoChunk, "undefined", "end") EXCEPT !.ret = "stream"]

\* res.end(chunk, encoding); rawRet is what the original end answers
end(t, o, q, chunk, encoding, rawRet) ==
  IF t.ended THEN [t EXCEPT !.ret = "false"]
  ELSE
    LET estimated ==
          IF ~hasHeader(t.headers, "Content-Length")
               \/ t.headers["Content-Length"] = 0
          THEN [t EXCEPT !.length = chunkLength(chunk, encoding)]
          ELSE t
        t1 == IF ~t.header THEN writeHead(estimated, o, q) ELSE t
    IN  IF t1.stream = NoStream
        THEN [rawEnd(t1, chunk, encoding, "end") EXCEPT !.ret = rawRet]
        ELSE
          LET t2 == [t1 EXCEPT !.ended = TRUE]
          IN  [(IF Truthy(chunk)
                THEN streamEndWith(t2, toBuffer(chunk, encoding))
                ELSE streamEnd(t2)) EXCEPT !.ret = "stream"]

\* on that buffers a drain listener although a transform exists.
on_BuffersWithStream(t, type, listener) ==
  IF t.listeners = null \/ type # "drain" THEN rawOn(t, type, listener)
  ELSE [t EXCEPT !.listeners = Append(@, <<type, listener>>)]

\* on that gives up the buffer of listeners when it has served a call.
on_GivesUpBuffer(t, type, listener) ==
  LET t1 == IF t.listeners = null \/ type # "drain"
            THEN rawOn(t, type, listener)
            ELSE IF t.stream # NoStream THEN streamOn(t, type, listener)
            ELSE [t EXCEPT !.listeners = Append(@, <<type, listener>>)]
  IN  [t1 EXCEPT !.listeners = null]

\* on without the test of the event type.
on_EveryType(t, type, listener) ==
  IF t.listeners = null THEN rawOn(t, type, listener)
  ELSE IF t.stream # NoStream THEN streamOn(t, type, listener)
  ELSE [t EXCEPT !.listeners = Append(@, <<type, listener>>)]

\* res.on(type, listener)
on(t, type, listener) ==
  IF t.listeners = null \/ type # "drain" THEN rawOn(t, type, listener)
  ELSE IF t.stream # NoStream THEN streamOn(t, type, listener)
  ELSE [t EXCEPT !.listeners = Append(@, <<type, listener>>)]

\* onStreamData that does not pause the transform.
onStreamData_NoPause(t, chunk, ok) ==
  rawWrite(t, Buf(chunk), "undefined", "onStreamData", ok)

\* stream.on("data", function onStreamData(chunk) { ... })
onStreamData(t, chunk, ok) ==
  LET t1 == rawWrite(t, Buf(chunk), "undefined", "onStreamData", ok)
  IN  IF ~ok THEN streamPause(t1) ELSE t1

\* stream.on("end", function onStreamEnd() { ... })
\* An end handler of the transform that does not end the raw transport.
onStreamEnd_NoEnd(t) == t

onStreamEnd(t) == rawEnd(t, NoChunk, "undefined", "onStreamEnd")

\* onResponseDrain that does not resume the transform.
onResponseDrain_NoResume(t) == t

\* _on.call(res, "drain", function onResponseDrain() { ... })
onResponseDrain(t) == streamResume(t)

(***************************************************************************)
(* Actions: what the application does with response r, and the events of   *)
(* the transform and of the raw transport.                                 *)
(***************************************************************************)
Requests == [method : Methods, accept : AcceptEncodings]

\* The listeners the application registers: two for drain, d1 before d2,
\* and one for another event.
Listeners == { <<"drain", "d1">>, <<"drain", "d2">>, <<"close", "c1">> }

Registered(r) ==
  { resOn[r][i] : i \in 1..Len(resOn[r]) }
    \cup { zOn[r][i] : i \in 1..Len(zOn[r]) }
    \cup { listeners[r][i] : i \in 1..Len(listeners[r]) }

\* res.setHeader(name, value), which the transport allows until the headers
\* are sent; the application sets the fields in `names`
SetHeader(r, names) ==
  /\ ~header[r]
  /\ \E name \in names : \E value \in HeaderValues(name) :
       /\ Commit(r, [Cur(r) EXCEPT !.headers = setHeader(@, name, value)])
       /\ appHeaders' = [appHeaders EXCEPT ![r] = setHeader(@, name, value)]
  /\ UNCHANGED <<appIn, writes, ends>>

\* res.setHeader("Cache-Control", value) with any of the values above
SetCacheControl(r) ==
  /\ ~header[r]
  /\ \E value \in CacheControlValues :
       /\ Commit(r, [Cur(r) EXCEPT
                       !.headers = setHeader(@, "Cache-Control", value)])
       /\ appHeaders' = [appHeaders EXCEPT
                           ![r] = setHeader(@, "Cache-Control", value)]
  /\ UNCHANGED <<appIn, writes, ends>>

\* res.writeHead(statusCode) called by the application (or flushHeaders)
AppWriteHead(r) ==
  /\ ~header[r]
  /\ Commit(r, writeHead(Cur(r), opts, req[r]))
  /\ UNCHANGED <<appHeaders, appIn, writes, ends>>

\* res.write(chunk, encoding)
AppWrite(r, max, args) ==
  /\ writes[r] < max
  /\ \E a \in args : \E ok \in BOOLEAN :
       /\ Commit(r, write(Cur(r), opts, req[r], a.chunk, a.encoding, ok))
       /\ appIn' = [appIn EXCEPT ![r] =
            IF ends[r] = 0 THEN Append(@, toBuffer(a.chunk, a.encoding)) ELSE @]
  /\ writes' = [writes EXCEPT ![r] = @ + 1]
  /\ UNCHANGED <<appHeaders, ends>>

\* res.end(chunk, encoding)
AppEnd(r, max, args) ==
  /\ ends[r] < max
  /\ \E a \in args : \E rawRet \in {"this", "false"} :
       /\ Commit(r, end(Cur(r), opts, req[r], a.chunk, a.encoding, rawRet))
       /\ appIn' = [appIn EXCEPT ![r] =
            IF ends[r] = 0 /\ Truthy(a.chunk)
            THEN Append(@, toBuffer(a.chunk, a.encoding)) ELSE @]
  /\ ends' = [ends EXCEPT ![r] = @ + 1]
  /\ UNCHANGED <<appHeaders, writes>>

\* res.flush()
AppFlush(r) ==
  /\ Commit(r, flush(Cur(r)))
  /\ UNCHANGED <<appHeaders, appIn, writes, ends>>

\* res.on(type, listener)
AppOn(r, ls) ==
  /\ \E l \in ls :
       /\ l \notin Registered(r)
       /\ l[2] = "d2" => <<"drain", "d1">> \in Registered(r)
       /\ Commit(r, on(Cur(r), l[1], l[2]))
  /\ UNCHANGED <<appHeaders, appIn, writes, ends>>

\* The codec encodes the next chunk it was given.
StreamTransform(r) ==
  /\ stream[r] # NoStream
  /\ zIn[r] # <<>>
  /\ Commit(r, [Cur(r) EXCEPT !.zIn = Tail(@),
                              !.zOut = @ \o Encode(stream[r], Head(zIn[r]))])
  /\ UNCHANGED <<appHeaders, appIn, writes, ends>>

\* The transform, flowing, emits data: the first n encoded bytes as a chunk.
StreamData(r) ==
  /\ stream[r] # NoStream
  /\ ~paused[r]
  /\ \E n \in 1..Len(zOut[r]) : \E ok \in BOOLEAN :
       LET chunk == SubSeq(zOut[r], 1, n)
           t == [Cur(r) EXCEPT !.zOut = SubSeq(@, n + 1, Len(@)),
                               !.zEmitted = Append(@, chunk)]
       IN  Commit(r, onStreamData(t, chunk, ok))
  /\ UNCHANGED <<appHeaders, appIn, writes, ends>>

\* The transform emits end: it was ended, has emitted everything and flows.
StreamEnd(r) ==
  /\ stream[r] # NoStream
  /\ zEnds[r] > 0 /\ ~zEnded[r]
  /\ zIn[r] = <<>> /\ zOut[r] = <<>> /\ ~paused[r]
  /\ Commit(r, onStreamEnd([Cur(r) EXCEPT !.zEnded = TRUE]))
  /\ UNCHANGED <<appHeaders, appIn, writes, ends>>

\* The listeners of `type` in a sequence of [type, listener] pairs.
ListenersOf(pairs, type) ==
  { pairs[i][2] : i \in { i \in 1..Len(pairs) : pairs[i][1] = type } }

\* The transform emits drain once it has taken the input it was given.
StreamDrain(r) ==
  /\ stream[r] # NoStream
  /\ zNeedDrain[r] /\ zIn[r] = <<>>
  /\ Commit(r, [Cur(r) EXCEPT
       !.zNeedDrain = FALSE,
       !.called = @ \cup { <<l, "stream">> : l \in ListenersOf(zOn[r], "drain") }])
  /\ UNCHANGED <<appHeaders, appIn, writes, ends>>

\* The raw transport emits drain: every drain listener registered with the
\* original on runs, onResponseDrain among them.
ResDrain(r) ==
  /\ needDrain[r]
  /\ LET ls == ListenersOf(resOn[r], "drain")
         t == [Cur(r) EXCEPT
                 !.needDrain = FALSE,
                 !.called = @ \cup { <<l, "res">> : l \in ls \ {"onResponseDrain"} }]
     IN  Commit(r, IF "onResponseDrain" \in ls THEN onResponseDrain(t) ELSE t)
  /\ UNCHANGED <<appHeaders, appIn, writes, ends>>

\* compression.filter(req, res), called by the application: the exported
\* shouldCompress; its answer is what the application sees.
AppFilter(r) ==
  /\ Commit(r, [Cur(r) EXCEPT
       !.ret = IF shouldCompress(headers[r]) THEN "true" ELSE "false"])
  /\ UNCHANGED <<appHeaders, appIn, writes, ends>>

\* A step of response r in a scenario sc: the header fields the application
\* sets, how often and with which arguments it writes and ends, the
\* listeners it registers.
Step(r, sc) ==
  \/ SetHeader(r, sc.names)
  \/ AppWriteHead(r)
  \/ AppWrite(r, sc.maxWrites, sc.writeArgs)
  \/ AppEnd(r, sc.maxEnds, sc.endArgs)
  \/ AppFlush(r)
  \/ AppOn(r, sc.listeners)
  \/ StreamTransform(r)
  \/ StreamData(r)
  \/ StreamEnd(r)
  \/ StreamDrain(r)
  \/ ResDrain(r)

\* The middleware has decorated every response; nothing else has happened.
Decorated ==
  /\ ended = [r \in Resp |-> Fresh.ended]
  /\ length = [r \in Resp |-> Fresh.length]
  /\ listeners = [r \in Resp |-> Fresh.listeners]
  /\ stream = [r \in Resp |-> Fresh.stream]
  /\ header = [r \in Resp |-> Fresh.header]
  /\ headers = [r \in Resp |-> Fresh.headers]
  /\ rawCalls = [r \in Resp |-> Fresh.rawCalls]
  /\ finished = [r \in Resp |-> Fresh.finished]
  /\ needDrain = [r \in Resp |-> Fresh.needDrain]
  /\ resOn = [r \in Resp |-> Fresh.resOn]
  /\ zIn = [r \in Resp |-> Fresh.zIn]
  /\ zOut = [r \in Resp |-> Fresh.zOut]
  /\ zRecv = [r \in Resp |-> Fresh.zRecv]
  /\ zEmitted = [r \in Resp |-> Fresh.zEmitted]
  /\ paused = [r \in Resp |-> Fresh.paused]
  /\ zEnds = [r \in Resp |-> Fresh.zEnds]
  /\ zEnded = [r \in Resp |-> Fresh.zEnded]
  /\ zNeedDrain = [r \in Resp |-> Fresh.zNeedDrain]
  /\ zOn = [r \in Resp |-> Fresh.zOn]
  /\ zFlush = [r \in Resp |-> Fresh.zFlush]
  /\ decisions = [r \in Resp |-> Fresh.decisions]
  /\ ret = [r \in Resp |-> Fresh.ret]
  /\ called = [r \in Resp |-> Fresh.called]
  /\ appHeaders = [r \in Resp |-> NoHeaders]
  /\ appIn = [r \in Resp |-> <<>>]
  /\ writes = [r \in Resp |-> 0]
  /\ ends = [r \in Resp |-> 0]

\* Spec: the streaming of one response, compressed or not.  The application
\* sets the content type, registers listeners, writes, ends and flushes in
\* any order; the transform and the transport emit their events in any
\* order; the request is a GET or a HEAD that accepts gzip.
Streaming ==
  [ names |-> {"Content-Type"},
    maxWrites |-> MaxWrites, writeArgs |-> WriteArgs,
    maxEnds |-> MaxEnds, endArgs |-> EndArgs,
    listeners |-> { <<"drain", "d1">>, <<"close", "c1">> } ]

Init ==
  /\ opts \in { o \in Options :
                  /\ o.threshold.kind = "number" /\ o.filter = "undefined"
                  /\ ~o.brotli.given /\ o.supportsBrotli /\ o.bytes = "3.1.0" }
  /\ \E q \in { q \in Requests : q.accept = <<Q("gzip", 10)>> } :
       req = [r \in Resp |-> q]
  /\ Decorated

Next == Step(1, Streaming)

Spec == Init /\ [][Next]_vars

\* SpecNegotiation: the decision of one response over every combination of
\* header fields, options and request, with a body of one write and one end.
Negotiation ==
  [ names |-> HeaderNames,
    maxWrites |-> 1, writeArgs |-> { Arg(Buf(<<1>>), "undefined") },
    maxEnds |-> 1,
    endArgs |-> { Arg(Str(<<2, 3>>), "utf8"), Arg(Str(<<0, 4>>), "hex"),
                  Arg(NoChunk, "undefined") },
    listeners |-> { <<"drain", "d1">> } ]

InitNegotiation ==
  /\ opts \in { o \in Options :
                  /\ o.threshold.kind = "number" /\ ~o.brotli.given
                  /\ o.supportsBrotli /\ o.bytes = "3.1.0" }
  /\ \E q \in { q \in Requests :
                   q.accept \in { <<>>, <<Q("gzip", 10)>>, <<Q("bogus", 10)>> } } :
       req = [r \in Resp |-> q]
  /\ Decorated

NextNegotiation == Step(1, Negotiation)

SpecNegotiation == InitNegotiation /\ [][NextNegotiation]_vars

\* SpecEncoding: the choice of the encoding of one response over every
\* Accept-Encoding, every brotli option and both kinds of zlib, with a body of
\* one write and one end and a threshold of 0.
Encoding ==
  [ names |-> {"Content-Type", "Content-Length"},
    maxWrites |-> 1, writeArgs |-> { Arg(Buf(<<1>>), "undefined") },
    maxEnds |-> 1, endArgs |-> { Arg(Str(<<2, 3>>), "utf8") },
    listeners |-> { <<"drain", "d1">> } ]

InitEncoding ==
  /\ opts \in { o \in Options :
                  /\ o.threshold = ThresholdOption("number", 0, "none")
                  /\ o.filter = "undefined" /\ o.bytes = "3.1.0" }
  /\ \E q \in { q \in Requests : q.method = "GET" } : req = [r \in Resp |-> q]
  /\ Decorated

NextEncoding == Step(1, Encoding)

SpecEncoding == InitEncoding /\ [][NextEncoding]_vars

\* SpecThreshold: the size check of one response over every threshold option
\* and both behaviours of bytes.parse, for a GET that accepts gzip, with a
\* body of one write and one end.
Threshold ==
  [ names |-> {"Content-Type", "Content-Length"},
    maxWrites |-> 1, writeArgs |-> { Arg(Buf(<<1>>), "undefined") },
    maxEnds |-> 1,
    endArgs |-> { Arg(Str(<<2, 3>>), "utf8"), Arg(NoChunk, "undefined") },
    listeners |-> { <<"drain", "d1">> } ]

InitThreshold ==
  /\ opts \in { o \in Options :
                  o.filter = "undefined" /\ ~o.brotli.given /\ o.supportsBrotli }
  /\ \E q \in { q \in Requests :
                   q.method = "GET" /\ q.accept = <<Q("gzip", 10)>> } :
       req = [r \in Resp |-> q]
  /\ Decorated

NextThreshold == Step(1, Threshold)

SpecThreshold == InitThreshold /\ [][NextThreshold]_vars

\* SpecListeners: the registration and the invocation of listeners on one
\* response with the full dynamics of the transform and the transport; the
\* application registers two drain listeners and one for another event, at
\* any time; the response is compressed (GET, text/plain) or not.
Registration ==
  [ names |-> {"Content-Type"},
    maxWrites |-> MaxWrites, writeArgs |-> WriteArgs,
    maxEnds |-> MaxEnds, endArgs |-> { Arg(Str(<<2, 3>>), "utf8") },
    listeners |-> Listeners ]

InitListeners ==
  /\ opts \in { o \in Options :
                  /\ o.threshold = ThresholdOption("number", 0, "none")
                  /\ o.filter = "undefined" /\ ~o.brotli.given
                  /\ o.supportsBrotli /\ o.bytes = "3.1.0" }
  /\ \E q \in { q \in Requests : q.accept = <<Q("gzip", 10)>> } :
       req = [r \in Resp |-> q]
  /\ Decorated

NextListeners == Step(1, Registration)

SpecListeners == InitListeners /\ [][NextListeners]_vars

\* SpecReplay: the decision of one response that has buffered drain
\* listeners, over every reason to decline and the compressing outcome, with
\* a body of one write and one end.
Replay ==
  [ names |-> HeaderNames,
    maxWrites |-> 1, writeArgs |-> { Arg(Buf(<<1>>), "undefined") },
    maxEnds |-> 1, endArgs |-> { Arg(NoChunk, "undefined") },
    listeners |-> { <<"drain", "d1">>, <<"drain", "d2">> } ]

InitReplay ==
  /\ opts \in { o \in Options :
                  /\ o.threshold.kind = "number" /\ ~o.brotli.given
                  /\ o.supportsBrotli /\ o.bytes = "3.1.0" }
  /\ \E q \in { q \in Requests :
                   q.accept \in { <<Q("gzip", 10)>>, <<Q("bogus", 10)>> } } :
       req = [r \in Resp |-> q]
  /\ Decorated

NextReplay == Step(1, Replay)

SpecReplay == InitReplay /\ [][NextReplay]_vars

\* SpecFilter: the exported filter, called on a response whose header fields
\* the application sets in any combination.
InitFilter ==
  /\ opts \in { o \in Options :
                  /\ o.threshold = ThresholdOption("number", 0, "none")
                  /\ o.filter = "undefined" /\ ~o.brotli.given
                  /\ o.supportsBrotli /\ o.bytes = "3.1.0" }
  /\ \E q \in { q \in Requests : q.accept = <<Q("gzip", 10)>> } :
       req = [r \in Resp |-> q]
  /\ Decorated

NextFilter == SetHeader(1, HeaderNames) \/ AppFilter(1)

SpecFilter == InitFilter /\ [][NextFilter]_vars

\* SpecDrain: backpressure on one response with progress assumed.  The
\* application writes once more than in the other specifications, so that a
\* write can find the transform paused with its input not yet taken.  The
\* raw transport emits the drain it owes; the transform emits the data and
\* the drain it owes, and takes its input while it is flowing (while it is
\* paused it may stall).
Backpressure ==
  [ names |-> {"Content-Type"},
    maxWrites |-> MaxWrites + 1, writeArgs |-> { Arg(Buf(<<1>>), "undefined") },
    maxEnds |-> 1, endArgs |-> { Arg(NoChunk, "undefined") },
    listeners |-> { <<"drain", "d1">> } ]

InitDrain ==
  /\ opts \in { o \in Options :
                  /\ o.threshold = ThresholdOption("number", 0, "none")
                  /\ o.filter = "undefined" /\ ~o.brotli.given
                  /\ o.supportsBrotli /\ o.bytes = "3.1.0" }
  /\ \E q \in { q \in Requests :
                   q.method = "GET" /\ q.accept = <<Q("gzip", 10)>> } :
       req = [r \in Resp |-> q]
  /\ Decorated

NextDrain == Step(1, Backpressure)

SpecDrain ==
  /\ InitDrain /\ [][NextDrain]_vars
  /\ WF_vars(ResDrain(1))
  /\ WF_vars(StreamTransform(1) /\ ~paused[1])
  /\ WF_vars(StreamData(1))
  /\ WF_vars(StreamDrain(1))

\* SpecIsolation: one middleware instance decorates every response, and the
\* operations on the responses interleave in any order; each response has its
\* own request, so one may be compressed and another not.
Interleaved ==
  [ names |-> {"Content-Type"},
    maxWrites |-> 1, writeArgs |-> { Arg(Buf(<<1>>), "undefined") },
    maxEnds |-> 1, endArgs |-> { Arg(NoChunk, "undefined") },
    listeners |-> { <<"drain", "d1">> } ]

\* A response the application ends without a body and without listeners.
Brief ==
  [ names |-> {}, maxWrites |-> 0, writeArgs |-> {},
    maxEnds |-> 1, endArgs |-> { Arg(NoChunk, "undefined") },
    listeners |-> {} ]

InitIsolation ==
  /\ opts \in { o \in Options :
                  /\ o.threshold = ThresholdOption("number", 0, "none")
                  /\ o.filter = "undefined" /\ ~o.brotli.given
                  /\ o.supportsBrotli /\ o.bytes = "3.1.0" }
  /\ \E q \in { q \in Requests :
                   q.method = "GET" /\ q.accept = <<Q("gzip", 10)>> } :
       req = [r \in Resp |-> q]
  /\ Decorated

\* The first two responses are streamed; any further one is brief.
NextIsolation ==
  \E r \in Resp : Step(r, IF r <= 2 THEN Interleaved ELSE Brief)

SpecIsolation == InitIsolation /\ [][NextIsolation]_vars

\* SpecTransform: shouldTransform on every Cache-Control value of up to
\* MaxLexemes lexemes.  The application sets the header, or leaves it out,
\* and sends the headers of a response that passes every other check.
InitTransform ==
  /\ opts \in { o \in Options :
                  /\ o.threshold = ThresholdOption("number", 0, "none")
                  /\ o.filter = "true" /\ ~o.brotli.given
                  /\ o.supportsBrotli /\ o.bytes = "3.1.0" }
  /\ \E q \in { q \in Requests :
                   q.method = "GET" /\ q.accept = <<Q("gzip", 10)>> } :
       req = [r \in Resp |-> q]
  /\ Decorated

NextTransform == SetCacheControl(1) \/ AppWriteHead(1)

SpecTransform == InitTransform /\ [][NextTransform]_vars

\* Finalization: the raw transport drains, and the transform processes its
\* input, emits its output and, once it was ended and is empty, its end event.
SpecFinish ==
  /\ InitDrain /\ [][NextDrain]_vars
  /\ WF_vars(ResDrain(1))
  /\ WF_vars(StreamTransform(1) /\ ~paused[1])
  /\ WF_vars(StreamData(1))
  /\ WF_vars(StreamEnd(1))

(***************************************************************************)
(* Properties.                                                             *)
(***************************************************************************)
\* The decision state of a response, read from the closure variables.
State(r) ==
  IF stream[r] # NoStream
  THEN (IF listeners[r] = null THEN "Both" ELSE "Compressing")
  ELSE (IF listeners[r] = null THEN "NoCompression" ELSE "Undecided")

\* The calls of the original write/end made by the application's own
\* write/end, and the chunks the original write was called with.
RECURSIVE SelectCalls(_, _)
SelectCalls(calls, vias) ==
  IF calls = <<>> THEN <<>>
  ELSE (IF Head(calls).via \in vias THEN <<Head(calls)>> ELSE <<>>)
         \o SelectCalls(Tail(calls), vias)

AppCalls(r) == SelectCalls(rawCalls[r], {"write", "end"})

RECURSIVE WrittenData(_)
WrittenData(calls) ==
  IF calls = <<>> THEN <<>>
  ELSE (IF Head(calls).op = "write" THEN <<Head(calls).chunk.data>> ELSE <<>>)
         \o WrittenData(Tail(calls))

\* The bytes the raw transport puts on the wire: those of the chunks it was
\* called with, up to and including its first end.
RECURSIVE Wire(_)
Wire(calls) ==
  IF calls = <<>> THEN <<>>
  ELSE LET c == Head(calls)
           bytes == IF Truthy(c.chunk) THEN toBuffer(c.chunk, c.encoding) ELSE <<>>
       IN  IF c.op = "end" THEN bytes ELSE bytes \o Wire(Tail(calls))

IsPrefix(a, b) == Len(a) <= Len(b) /\ a = SubSeq(b, 1, Len(a))

\* C1: every call of the original write or end (so every body byte handed to
\* the raw transport, by the application's write/end or by the transform's
\* handlers) is made after onResponseHeaders has run, and leaves the response
\* decided.
C1_DecisionBeforeBody ==
  \A r \in Resp :
    /\ \A i \in 1..Len(rawCalls[r]) : rawCalls[r][i].decided
    /\ rawCalls[r] # <<>> => State(r) # "Undecided"

\* C1 witness: the first write of a response found the headers unsent, and
\* its chunk went to the original write.
C1_Witness ==
  /\ writes[1] = 1 /\ ends[1] = 0 /\ decisions[1] = 1
  /\ Len(rawCalls[1]) = 1 /\ rawCalls[1][1].via = "write"

\* C2: a response starts Undecided; onResponseHeaders runs at most once; the
\* response is Undecided exactly as long as it has not run, and is then either
\* NoCompression or Compressing, never both; once decided, the state and the
\* transform never change.
C2_DecidedOnce ==
  /\ \A r \in Resp : State(r) = "Undecided" /\ decisions[r] = 0
  /\ [][\A r \in Resp :
          /\ decisions'[r] <= 1
          /\ (decisions'[r] = 0) <=> (State(r)' = "Undecided")
          /\ State(r)' # "Both"
          /\ State(r) # "Undecided" =>
               /\ State(r)' = State(r)
               /\ stream'[r] = stream[r]
               /\ decisions'[r] = decisions[r]]_vars

\* C2 witness: a compressing response after a write, a flush, two ends and the
\* end of the transform.
C2_Witness ==
  /\ State(1) = "Compressing" /\ writes[1] = 1 /\ ends[1] = 2
  /\ zFlush[1] /\ zEnded[1]

\* C3: in every step that leaves a transform in place, the application's
\* write/end make no call of the original write/end; the chunk the
\* application passed is given to the transform; and the original write is
\* called by onStreamData only.
C3_RoutedThroughTransform ==
  [][\A r \in Resp :
       stream'[r] # NoStream =>
         /\ AppCalls(r)' = AppCalls(r)
         /\ appIn'[r] # appIn[r] =>
              zRecv'[r] = Append(zRecv[r], appIn'[r][Len(appIn'[r])])
         /\ \A i \in (Len(rawCalls[r]) + 1)..Len(rawCalls'[r]) :
              rawCalls'[r][i].op = "write" => rawCalls'[r][i].via = "onStreamData"]_vars

\* C3 witness: the transform has been given two chunks and the raw transport
\* has been written to by onStreamData.
C3_Witness ==
  /\ stream[1] # NoStream /\ Len(zRecv[1]) = 2
  /\ \E i \in 1..Len(rawCalls[1]) : rawCalls[1][i].via = "onStreamData"

\* C4: while a response is compressing, the transform has been given exactly
\* the chunks the application passed, in order; the chunks it emitted are the
\* chunks the original write was called with, in order; what is on the wire
\* decodes to a prefix of the input, and to all of it once the transform has
\* ended.
C4_RoundTrip ==
  \A r \in Resp :
    State(r) = "Compressing" =>
      /\ zRecv[r] = appIn[r]
      /\ WrittenData(rawCalls[r]) = zEmitted[r]
      /\ \A i \in 1..Len(rawCalls[r]) : rawCalls[r][i].op = "write" =>
           rawCalls[r][i].via = "onStreamData"
      /\ IsPrefix(Decode(stream[r], Wire(rawCalls[r])), Concat(appIn[r]))
      /\ zEnded[r] => Decode(stream[r], Wire(rawCalls[r])) = Concat(appIn[r])

\* C4 witness: a write and an end with a chunk went through the transform,
\* which emitted its output in chunks that are not the input's, and ended.
C4_Witness ==
  /\ State(1) = "Compressing" /\ zEnded[1] /\ finished[1]
  /\ Len(appIn[1]) = 2 /\ Len(zEmitted[1]) = 3

\* C5 as claimed: after the first end call of a response, compressing or not,
\* a write returns false and reaches neither the transform nor the original
\* write/end.
C5_AsClaimed ==
  [][\A r \in Resp :
       ends[r] >= 1 /\ writes'[r] = writes[r] + 1 =>
         /\ ret'[r] = "false"
         /\ rawCalls'[r] = rawCalls[r]
         /\ zRecv'[r] = zRecv[r] /\ zIn'[r] = zIn[r]]_vars

\* C5 amended: after the first end call of a response that has a transform, a
\* write returns false and reaches neither the transform nor the original
\* write/end, and changes nothing else of the response.
C5_WriteAfterEnd ==
  [][\A r \in Resp :
       ends[r] >= 1 /\ stream[r] # NoStream /\ writes'[r] = writes[r] + 1 =>
         /\ ended[r]
         /\ ret'[r] = "false"
         /\ rawCalls'[r] = rawCalls[r]
         /\ zRecv'[r] = zRecv[r] /\ zIn'[r] = zIn[r]
         /\ [Cur(r) EXCEPT !.ret = "false"] = Cur(r)']_vars

\* C5 witness: a compressing response was ended once and then written to.
C5_Witness ==
  /\ ended[1] /\ ends[1] = 1 /\ writes[1] >= 1 /\ ret[1] = "false"

\* C6 as claimed: a second end call of a response, compressing or not, returns
\* a falsy result and reaches neither the transform nor the original
\* write/end.
C6_AsClaimed ==
  [][\A r \in Resp :
       ends[r] >= 1 /\ ends'[r] = ends[r] + 1 =>
         /\ ret'[r] = "false"
         /\ rawCalls'[r] = rawCalls[r]
         /\ zRecv'[r] = zRecv[r] /\ zEnds'[r] = zEnds[r]]_vars

\* C6 amended: a second end call of a response that has a transform returns
\* false and reaches neither the transform nor the original write/end.
C6_EndIdempotent ==
  [][\A r \in Resp :
       ends[r] >= 1 /\ stream[r] # NoStream /\ ends'[r] = ends[r] + 1 =>
         /\ ret'[r] = "false"
         /\ rawCalls'[r] = rawCalls[r]
         /\ zRecv'[r] = zRecv[r] /\ zEnds'[r] = zEnds[r]
         /\ [Cur(r) EXCEPT !.ret = "false"] = Cur(r)']_vars

\* C6 witness: a compressing response was ended twice; the transform was ended
\* once.
C6_Witness ==
  /\ ended[1] /\ ends[1] = 2 /\ ret[1] = "false" /\ zEnds[1] = 1

\* A header field is as the application left it.
Untouched(r, name) ==
  /\ hasHeader(headers[r], name) <=> hasHeader(appHeaders[r], name)
  /\ hasHeader(headers[r], name) => headers[r][name] = appHeaders[r][name]

VaryCount(r) ==
  IF hasHeader(headers[r], "Vary")
  THEN Count(headers[r]["Vary"], "Accept-Encoding") ELSE 0

\* The value of Cache-Control has an element, between commas or the ends of
\* the value, that is the word no-transform with blanks around it at most.
NoTransformDirective(h) ==
  /\ hasHeader(h, "Cache-Control")
  /\ LET v == h["Cache-Control"]
     IN  \E i \in 1..Len(v) : \E j \in i..Len(v) :
           /\ i = 1 \/ v[i - 1] = ","
           /\ j = Len(v) \/ v[j + 1] = ","
           /\ \E k \in i..j :
                /\ v[k] = "no-transform"
                /\ \A m \in (i..j) \ {k} : v[m] = " "

\* C7: a response to a HEAD request never has a transform and its
\* Content-Encoding stays as the application left it; once decided, with the
\* filter and the no-transform check passed, Vary lists Accept-Encoding.
C7_Head ==
  \A r \in Resp :
    req[r].method = "HEAD" =>
      /\ stream[r] = NoStream
      /\ Untouched(r, "Content-Encoding")
      /\ (decisions[r] >= 1 /\ filter(opts, appHeaders[r])
            /\ shouldTransform(appHeaders[r])) => VaryCount(r) >= 1

\* C7 witness: a HEAD request that accepts gzip, threshold 0, a compressible
\* type and a body: decided, not compressed, Vary added.
C7_Witness ==
  /\ req[1].method = "HEAD" /\ req[1].accept = <<Q("gzip", 10)>>
  /\ threshold(opts) = 0 /\ opts.filter = "undefined"
  /\ DOMAIN appHeaders[1] = {"Content-Type"}
  /\ decisions[1] = 1 /\ State(1) = "NoCompression"
  /\ headers[1]["Vary"] = <<"Accept-Encoding">>
  /\ finished[1] /\ Wire(rawCalls[1]) = <<2, 3>>

\* C8: a decided response whose Cache-Control carries no-transform is not
\* compressed, its header fields are as the application left them, and the
\* bytes on the wire are the bytes the application passed, by its own
\* write/end calls.
C8_NoTransform ==
  \A r \in Resp :
    decisions[r] >= 1 /\ NoTransformDirective(appHeaders[r]) =>
      /\ State(r) = "NoCompression"
      /\ headers[r] = appHeaders[r]
      /\ AppCalls(r) = rawCalls[r]
      /\ Wire(rawCalls[r]) = Concat(appIn[r])

\* C8 witness: everything else would compress, Cache-Control is no-transform,
\* and the body was written and ended.
C8_Witness ==
  /\ req[1].method = "GET" /\ req[1].accept = <<Q("gzip", 10)>>
  /\ threshold(opts) = 0 /\ opts.filter = "undefined"
  /\ DOMAIN appHeaders[1] = {"Content-Type", "Cache-Control"}
  /\ appHeaders[1]["Content-Type"] = "text/plain"
  /\ decisions[1] = 1 /\ finished[1] /\ Wire(rawCalls[1]) = <<1, 2, 3>>

\* C9: with the default filter, a decided response without a Content-Type, or
\* with one the table does not call compressible, is not compressed, and its
\* Content-Encoding and Vary are as the application left them.
C9_NotCompressible ==
  \A r \in Resp :
    ( /\ decisions[r] >= 1 /\ opts.filter = "undefined"
      /\ \/ ~hasHeader(appHeaders[r], "Content-Type")
         \/ ~compressible(appHeaders[r]["Content-Type"]) ) =>
      /\ State(r) = "NoCompression"
      /\ Untouched(r, "Content-Encoding")
      /\ Untouched(r, "Vary")

\* C9 witness: no Content-Type at all, everything else would compress.
C9_Witness ==
  /\ req[1].method = "GET" /\ req[1].accept = <<Q("gzip", 10)>>
  /\ threshold(opts) = 0 /\ opts.filter = "undefined"
  /\ appHeaders[1] = NoHeaders
  /\ decisions[1] = 1 /\ finished[1]

\* C10: once a response is decided with the filter and the no-transform check
\* passed, Vary lists Accept-Encoding exactly once, whatever the outcome.
C10_VaryOnce ==
  \A r \in Resp :
    ( /\ decisions[r] >= 1 /\ filter(opts, appHeaders[r])
      /\ shouldTransform(appHeaders[r]) ) => VaryCount(r) = 1

\* C10 witness: a request without Accept-Encoding, declined for that alone,
\* whose Vary the application had set to another field.
C10_Witness ==
  /\ req[1].method = "GET" /\ req[1].accept = <<>>
  /\ threshold(opts) = 0 /\ opts.filter = "undefined"
  /\ DOMAIN appHeaders[1] = {"Content-Type", "Vary"}
  /\ appHeaders[1]["Content-Type"] = "text/plain"
  /\ appHeaders[1]["Vary"] = <<"Origin">>
  /\ decisions[1] = 1 /\ State(1) = "NoCompression"
  /\ headers[1]["Vary"] = <<"Origin", "Accept-Encoding">>

EarlierChecksPass(r) ==
  /\ filter(opts, appHeaders[r])
  /\ shouldTransform(appHeaders[r])
  /\ \/ ~hasHeader(appHeaders[r], "Content-Encoding")
     \/ appHeaders[r]["Content-Encoding"] = "identity"
  /\ req[r].method # "HEAD"

\* The encodings of the server the client accepts.
Accepted(r) ==
  { e \in {"br", "gzip", "deflate"} : acceptsEncoding(req[r].accept, e) }

\* The encoding the claim expects, br being in or out of the negotiation.
Expected(r, brotliOn) ==
  IF brotliOn /\ "br" \in Accepted(r) THEN "br"
  ELSE IF "gzip" \in Accepted(r) THEN "gzip"
  ELSE IF "deflate" \in Accepted(r) THEN "deflate"
  ELSE NoStream

\* C12: for a decided response that passed the earlier checks, with a
\* threshold of 0 and brotli.enabled either set or the brotli option absent,
\* the encoding of the transform is br if br is enabled, available and
\* accepted, else gzip if accepted, else deflate if accepted; it depends on the
\* set of accepted encodings only: gzip for "gzip, deflate" and for
\* "deflate, gzip"; for "br, gzip" br with Brotli enabled and available and
\* gzip without.
C12_ServerOrder ==
  \A r \in Resp :
    ( /\ decisions[r] >= 1 /\ EarlierChecksPass(r) /\ threshold(opts) = 0
      /\ (opts.brotli.given => opts.brotli.enabled # "undefined") ) =>
      LET brotliOn ==
            opts.supportsBrotli /\ (opts.brotli.given => opts.brotli.enabled = "true")
      IN  /\ stream[r] = Expected(r, brotliOn)
          /\ req[r].accept \in { <<Q("gzip", 10), Q("deflate", 10)>>,
                                  <<Q("deflate", 10), Q("gzip", 10)>> } =>
               stream[r] = "gzip"
          /\ req[r].accept = <<Q("br", 10), Q("gzip", 10)>> =>
               stream[r] = (IF brotliOn THEN "br" ELSE "gzip")

\* C12 witness: "deflate, gzip" was answered with gzip.
C12_Witness ==
  /\ req[1].accept = <<Q("deflate", 10), Q("gzip", 10)>>
  /\ decisions[1] = 1 /\ stream[1] = "gzip" /\ finished[1]
  /\ headers[1]["Content-Encoding"] = "gzip"

\* C13: brotli.enabled defaults to true.  For a decided response that passed
\* the earlier checks, with a threshold of 0 and a client that accepts br:
\* when the runtime supports Brotli and the configuration does not set
\* brotli.enabled (no brotli option, or one without the field), the transform
\* is br and Content-Encoding is br; and br is left out only when
\* brotli.enabled is false or the runtime has no Brotli.
C13_BrotliDefault ==
  \A r \in Resp :
    ( /\ decisions[r] >= 1 /\ EarlierChecksPass(r) /\ threshold(opts) = 0
      /\ "br" \in Accepted(r) ) =>
      /\ ( /\ opts.supportsBrotli
           /\ (~opts.brotli.given \/ opts.brotli.enabled = "undefined") ) =>
             /\ stream[r] = "br"
             /\ hasHeader(headers[r], "Content-Encoding")
             /\ headers[r]["Content-Encoding"] = "br"
      /\ stream[r] # "br" =>
           \/ ~opts.supportsBrotli
           \/ opts.brotli.given /\ opts.brotli.enabled = "false"

\* The client accepts none of the encodings the server has to offer: none at
\* all, or br alone while Brotli is switched off or missing.
NoneAcceptable(r) ==
  \/ Accepted(r) = {}
  \/ /\ Accepted(r) = {"br"}
     /\ \/ ~opts.supportsBrotli
        \/ opts.brotli.given /\ opts.brotli.enabled = "false"

\* C14: when the earlier checks pass and the client accepts none of the
\* server's encodings, the decision replays the buffered drain listeners, in
\* order, onto the raw transport; from then on the response is in
\* NoCompression without a Content-Encoding, the bytes on the wire are the
\* bytes the application passed, by its own write/end calls, and the
\* application's end ends the raw transport.
C14_NotAcceptable ==
  /\ [](\A r \in Resp :
         ( /\ decisions[r] >= 1 /\ EarlierChecksPass(r) /\ threshold(opts) = 0
           /\ NoneAcceptable(r) ) =>
           /\ State(r) = "NoCompression"
           /\ ~hasHeader(headers[r], "Content-Encoding")
           /\ AppCalls(r) = rawCalls[r]
           /\ Wire(rawCalls[r]) = Concat(appIn[r])
           /\ ends[r] >= 1 => finished[r])
  /\ [][\A r \in Resp :
          ( /\ decisions[r] = 0 /\ decisions'[r] = 1
            /\ EarlierChecksPass(r) /\ threshold(opts) = 0
            /\ NoneAcceptable(r) ) =>
            resOn'[r] = resOn[r] \o listeners[r]]_vars

\* C14 witness: a client that accepts only an unknown token; the drain
\* listener registered before the decision is on the raw transport and the
\* body went out as it was passed.
C14_Witness ==
  /\ req[1].accept = <<Q("bogus", 10)>>
  /\ DOMAIN appHeaders[1] = {"Content-Type"}
  /\ appHeaders[1]["Content-Type"] = "text/plain"
  /\ decisions[1] = 1 /\ State(1) = "NoCompression"
  /\ resOn[1] = << <<"drain", "d1">> >>
  /\ finished[1] /\ Wire(rawCalls[1]) = <<1, 2, 3>>

\* Every check of onResponseHeaders other than the size check passes: the
\* earlier ones, and the client accepts gzip or deflate.
OtherChecksPass(r) ==
  /\ EarlierChecksPass(r)
  /\ Accepted(r) \ {"br"} # {}

\* C15: a decided response with a declared Content-Length L, every other
\* check passing, has a transform if and only if L >= threshold, whether the
\* headers were sent by a write, by writeHead or by end.
C15_DeclaredLength ==
  \A r \in Resp :
    ( /\ decisions[r] >= 1 /\ OtherChecksPass(r)
      /\ hasHeader(appHeaders[r], "Content-Length") ) =>
      (stream[r] # NoStream <=> appHeaders[r]["Content-Length"] >= threshold(opts))

\* C15 witness: a declared length equal to a threshold of 2, streamed by a
\* write followed by an end, compressed.
C15_Witness ==
  /\ threshold(opts) = 2
  /\ hasHeader(appHeaders[1], "Content-Length")
  /\ appHeaders[1]["Content-Length"] = 2
  /\ rawCalls[1] = <<>> /\ Len(zRecv[1]) = 2 /\ writes[1] = 1 /\ ends[1] = 1
  /\ stream[1] = "gzip" /\ ended[1]

\* C16: when the headers are sent by a write or by writeHead, so before any
\* end, and the application declared no Content-Length, no length is
\* estimated then or later, and with every other check passing the response
\* gets a transform, whatever the threshold and the size of the body.
C16_UnknownLength ==
  [][\A r \in Resp :
       /\ ( /\ decisions[r] = 0 /\ decisions'[r] = 1 /\ ends'[r] = ends[r]
            /\ ~hasHeader(appHeaders[r], "Content-Length") ) =>
            /\ length'[r] = undefined
            /\ OtherChecksPass(r) => stream'[r] # NoStream
       /\ header[r] => length'[r] = length[r]]_vars

\* C16 witness: threshold 2, no Content-Length, a body of one byte written
\* and then ended without a chunk: compressed, the transform has ended.
C16_Witness ==
  /\ threshold(opts) = 2
  /\ DOMAIN appHeaders[1] = {"Content-Type"}
  /\ length[1] = undefined /\ stream[1] = "gzip"
  /\ appIn[1] = << <<1>> >> /\ ends[1] = 1 /\ zEnded[1]

\* C17: when the first end finds the headers unsent and the application
\* declared no Content-Length, the estimated length is the number of bytes the
\* chunk decodes to with its encoding, 0 without a chunk; with every other
\* check passing, the response is left without a transform if and only if the
\* estimate is below the threshold.
C17_EstimatedLength ==
  [][\A r \in Resp :
       ( /\ ends[r] = 0 /\ ends'[r] = 1 /\ ~header[r]
         /\ ~hasHeader(appHeaders[r], "Content-Length") ) =>
         /\ length'[r] = IF appIn'[r] # appIn[r]
                          THEN Len(appIn'[r][Len(appIn'[r])]) ELSE 0
         /\ OtherChecksPass(r) =>
              (stream'[r] = NoStream <=> length'[r] < threshold(opts))]_vars

\* C17 witness: threshold 2 and a first end with the hex string "04", one
\* byte: estimated as 1, sent as it is.
C17_Witness ==
  /\ threshold(opts) = 2 /\ OtherChecksPass(1)
  /\ ~hasHeader(appHeaders[1], "Content-Length")
  /\ writes[1] = 0 /\ ends[1] = 1 /\ length[1] = 1
  /\ State(1) = "NoCompression" /\ Wire(rawCalls[1]) = <<4>>

\* C18: a response that has a transform has its headers sent with
\* Content-Encoding equal to the encoding of the transform, one of br, gzip
\* and deflate, and without a Content-Length, whether or not the application
\* had declared one.
C18_CompressedHeaders ==
  \A r \in Resp :
    stream[r] # NoStream =>
      /\ header[r]
      /\ stream[r] \in {"br", "gzip", "deflate"}
      /\ hasHeader(headers[r], "Content-Encoding")
      /\ headers[r]["Content-Encoding"] = stream[r]
      /\ ~hasHeader(headers[r], "Content-Length")

\* C18 witness: the application declared a Content-Length of 2 and the
\* response is compressed with br.
C18_Witness ==
  /\ hasHeader(appHeaders[1], "Content-Length")
  /\ appHeaders[1]["Content-Length"] = 2
  /\ stream[1] = "br" /\ header[1]
  /\ headers[1]["Content-Encoding"] = "br"
  /\ DOMAIN headers[1] = {"Content-Type", "Content-Encoding", "Vary"}

\* The threshold the claim states for an option: the number itself, the
\* number of bytes of a size string, 1024 for an absent option and for a
\* string that is not a size.
ClaimedThreshold(value) ==
  IF value.kind = "number" THEN value.number
  ELSE IF value.kind = "string" /\ value.number # NaN /\ value.unit = "kb"
       THEN 1024 * value.number
  ELSE 1024

\* C19: the effective threshold is the configured number (0 stays 0) or the
\* size a string states ("1kb" is 1024), and 1024 when the option is absent
\* or does not parse; a decided response with a declared Content-Length,
\* every other check passing, has a transform if and only if that length is
\* at least this threshold.
C19_EffectiveThreshold ==
  \A r \in Resp :
    decisions[r] >= 1 =>
      /\ threshold(opts) = ClaimedThreshold(opts.threshold)
      /\ (OtherChecksPass(r) /\ hasHeader(appHeaders[r], "Content-Length")) =>
           ( stream[r] # NoStream <=>
               appHeaders[r]["Content-Length"] >= ClaimedThreshold(opts.threshold) )

\* C19, as far as it holds: the same, unless the option is a string that does
\* not parse and bytes.parse gives NaN for it, in which case no length is
\* below the threshold.
C19_ParsedThreshold ==
  LET unparsed == bytesParse(opts.threshold, opts.bytes) = NaN
  IN  \A r \in Resp :
        decisions[r] >= 1 =>
          /\ ~unparsed => threshold(opts) = ClaimedThreshold(opts.threshold)
          /\ (OtherChecksPass(r) /\ hasHeader(appHeaders[r], "Content-Length")) =>
               ( stream[r] # NoStream <=>
                   \/ unparsed
                   \/ appHeaders[r]["Content-Length"]
                        >= ClaimedThreshold(opts.threshold) )

\* C19 witness: threshold "garbage", parsed to NaN: a response that declares
\* a Content-Length of 1 is compressed.
C19_Witness ==
  /\ opts.threshold = ThresholdOption("string", NaN, "none")
  /\ threshold(opts) = NaN
  /\ hasHeader(appHeaders[1], "Content-Length")
  /\ appHeaders[1]["Content-Length"] = 1
  /\ stream[1] = "gzip" /\ finished[1]

\* C20: while a response has a transform, a write of onStreamData that
\* returned false (the raw transport owes a drain) has left the transform
\* paused, and no step taken while the transform is paused emits a chunk or
\* calls the original write.
C20_Backpressure ==
  /\ [](\A r \in Resp : (stream[r] # NoStream /\ needDrain[r]) => paused[r])
  /\ [][\A r \in Resp :
          paused[r] =>
            /\ zEmitted'[r] = zEmitted[r]
            /\ WrittenData(rawCalls'[r]) = WrittenData(rawCalls[r])]_vars

\* C20 witness: the write of the first encoded byte returned false; the
\* transform is paused and holds back the output it still has.
C20_Witness ==
  /\ stream[1] # NoStream /\ paused[1] /\ needDrain[1]
  /\ Len(zEmitted[1]) = 1 /\ zOut[1] # <<>>
  /\ rawCalls[1][Len(rawCalls[1])].via = "onStreamData"

\* What the application has called on response r and what the transform has
\* emitted: unchanged by a step that is an event of the raw transport.
AppDid(r) ==
  << writes[r], ends[r], zFlush[r], Registered(r), zRecv[r], zEnds[r],
     zIn[r], zOut[r], zEmitted[r], zEnded[r], zNeedDrain[r] >>

\* C21: a paused transform is resumed only by the drain event of the raw
\* transport: the step that resumes it is one in which the raw transport's
\* outstanding drain is delivered, and in which the application calls nothing
\* and the transform emits nothing.
C21_ResumeOnlyOnDrain ==
  [][\A r \in Resp :
       (stream[r] # NoStream /\ paused[r] /\ ~paused'[r]) =>
         /\ needDrain[r] /\ ~needDrain'[r]
         /\ <<"drain", "onResponseDrain">> \in { resOn[r][i] : i \in 1..Len(resOn[r]) }
         /\ AppDid(r)' = AppDid(r)]_vars

\* C21 witness: the transform was paused by a write that returned false, and
\* is still paused after the application has written, ended, flushed and
\* registered a drain listener and the transform has encoded all its input.
C21_Witness ==
  /\ stream[1] # NoStream /\ paused[1] /\ needDrain[1]
  /\ writes[1] = 1 /\ ended[1] /\ zFlush[1]
  /\ <<"drain", "d1">> \in { zOn[1][i] : i \in 1..Len(zOn[1]) }
  /\ zIn[1] = <<>> /\ zOut[1] # <<>>

\* C22: a call of flush on a response without a transform changes nothing;
\* on a response with a transform it asks the transform to flush and changes
\* nothing else: the transform and the raw transport are not ended, nothing is
\* written, the ended flag is as it was; and a flush is only ever asked of a
\* transform that exists.
C22_Flush ==
  /\ [](\A r \in Resp : zFlush[r] => stream[r] # NoStream)
  /\ [][\A r \in Resp :
          AppFlush(r) =>
            /\ stream[r] = NoStream => UNCHANGED vars
            /\ stream[r] # NoStream =>
                 /\ Cur(r)' = [Cur(r) EXCEPT !.zFlush = TRUE]
                 /\ ended'[r] = ended[r] /\ zEnds'[r] = zEnds[r]
                 /\ finished'[r] = finished[r] /\ rawCalls'[r] = rawCalls[r]]_vars

\* C22 witness: a transform that was written to and flushed, and neither it
\* nor the raw transport has been ended.
C22_Witness ==
  /\ stream[1] # NoStream /\ zFlush[1] /\ writes[1] = 1
  /\ ~ended[1] /\ zEnds[1] = 0 /\ ~finished[1] /\ ends[1] = 0

\* The checks of onResponseHeaders after the filter pass: no no-transform, a
\* size not below the threshold, no encoding declared, not a HEAD, and gzip
\* or deflate accepted.
ChecksAfterFilterPass(r) ==
  /\ shouldTransform(appHeaders[r])
  /\ hasHeader(appHeaders[r], "Content-Length") =>
       appHeaders[r]["Content-Length"] >= threshold(opts)
  /\ length[r] # undefined => length[r] >= threshold(opts)
  /\ \/ ~hasHeader(appHeaders[r], "Content-Encoding")
     \/ appHeaders[r]["Content-Encoding"] = "identity"
  /\ req[r].method # "HEAD"
  /\ Accepted(r) \ {"br"} # {}

\* C23: with a configured filter, a decided response for which the filter
\* answered false is not compressed and its header fields, Vary among them,
\* are as the application left them, whatever its Content-Type; one for which
\* it answered true is compressed whenever the later checks pass, whatever
\* its Content-Type, absent or not compressible included.
C23_CustomFilter ==
  \A r \in Resp :
    decisions[r] >= 1 =>
      /\ opts.filter = "false" =>
           /\ State(r) = "NoCompression"
           /\ headers[r] = appHeaders[r]
      /\ (opts.filter = "true" /\ ChecksAfterFilterPass(r)) =>
           stream[r] # NoStream

\* C23 witness: a filter that answers true and a Content-Type the table does
\* not call compressible: compressed.
C23_Witness ==
  /\ opts.filter = "true"
  /\ hasHeader(appHeaders[1], "Content-Type")
  /\ appHeaders[1]["Content-Type"] = "image/jpeg"
  /\ stream[1] = "gzip" /\ headers[1]["Vary"] = <<"Accept-Encoding">>

\* C24: a call of the exported filter answers false for a response without a
\* Content-Type or with one the table does not call compressible, true
\* otherwise, and changes nothing of the request or the response.
C24_ExportedFilter ==
  [][\A r \in Resp :
       AppFilter(r) =>
         /\ ret'[r] = IF /\ hasHeader(appHeaders[r], "Content-Type")
                         /\ compressible(appHeaders[r]["Content-Type"])
                      THEN "true" ELSE "false"
         /\ Cur(r)' = [Cur(r) EXCEPT !.ret = ret'[r]]
         /\ UNCHANGED <<opts, req, appHeaders, appIn, writes, ends>>]_vars

\* C24 witness: the filter answered false for a response that declares every
\* field but with a type that is not compressible.
C24_Witness ==
  /\ ret[1] = "false" /\ DOMAIN headers[1] = HeaderNames
  /\ headers[1]["Content-Type"] = "image/jpeg"

\* C25: a write on a response that has not ended reaches exactly one writer:
\* the transform, which is given the bytes of the chunk, when the response
\* has one after the call, and the original write otherwise, which is called
\* with the chunk and the encoding as the application passed them; the result
\* is false exactly when that writer answered false (it then owes a drain).
C25_WriteResult ==
  [][\A r \in Resp :
       (writes'[r] = writes[r] + 1 /\ ~ended[r]) =>
         /\ ret'[r] \in {"true", "false"}
         /\ stream'[r] # NoStream =>
              /\ rawCalls'[r] = rawCalls[r]
              /\ Len(zRecv'[r]) = Len(zRecv[r]) + 1
              /\ \E a \in WriteArgs :
                    zRecv'[r][Len(zRecv'[r])] = toBuffer(a.chunk, a.encoding)
              /\ ~zNeedDrain[r] => (ret'[r] = "false" <=> zNeedDrain'[r])
         /\ stream'[r] = NoStream =>
              /\ zRecv'[r] = zRecv[r]
              /\ Len(rawCalls'[r]) = Len(rawCalls[r]) + 1
              /\ LET c == rawCalls'[r][Len(rawCalls'[r])]
                 IN  /\ c.op = "write" /\ c.via = "write"
                     /\ Arg(c.chunk, c.encoding) \in WriteArgs
                     /\ ends[r] = 0 =>
                          appIn'[r][Len(appIn'[r])] = toBuffer(c.chunk, c.encoding)
              /\ (~needDrain[r] /\ ~finished[r]) =>
                   (ret'[r] = "false" <=> needDrain'[r])]_vars

\* C25 witness: compression was declined, the hex string went to the original
\* write as it was passed, the write answered false and so did res.write.
C25_Witness ==
  /\ State(1) = "NoCompression" /\ writes[1] = 1 /\ ends[1] = 0
  /\ ret[1] = "false" /\ needDrain[1]
  /\ Len(rawCalls[1]) = 1
  /\ rawCalls[1][1].chunk = Str(<<0, 4, 0, 5>>) /\ rawCalls[1][1].encoding = "hex"

\* The listeners the application registers for drain.
AppDrainListeners == { l \in Listeners : l[1] = "drain" }

\* C26: the step that decides a response attaches the drain listeners
\* buffered until then, in the order of their registration: to the transform,
\* and not to the raw transport, when the response gets a transform; to the
\* raw transport, and not to a transform, when it does not, whatever the
\* reason.  At any time a listener of the application is buffered or attached
\* to one target, once.
C26_ListenerReplay ==
  /\ [](\A r \in Resp : \A l \in AppDrainListeners :
         Count(resOn[r], l) + Count(zOn[r], l)
           + (IF decisions[r] = 0 THEN Count(listeners[r], l) ELSE 0) <= 1)
  /\ [][\A r \in Resp :
          (decisions[r] = 0 /\ decisions'[r] = 1) =>
            IF stream'[r] # NoStream
            THEN /\ zOn'[r] = zOn[r] \o listeners[r]
                 /\ resOn'[r] = Append(resOn[r], <<"drain", "onResponseDrain">>)
            ELSE /\ resOn'[r] = resOn[r] \o listeners[r]
                 /\ zOn'[r] = zOn[r]
                 /\ listeners'[r] = null]_vars

\* C26 witness: two drain listeners were buffered, the response was ended
\* without a body under a threshold of 2 and so declined for its size, and
\* the raw transport has the two listeners in their order.
C26_Witness ==
  /\ threshold(opts) = 2 /\ OtherChecksPass(1)
  /\ ~hasHeader(appHeaders[1], "Content-Length")
  /\ decisions[1] = 1 /\ length[1] = 0 /\ State(1) = "NoCompression"
  /\ resOn[1] = << <<"drain", "d1">>, <<"drain", "d2">> >>
  /\ writes[1] = 0

\* C27: once a response is decided, the buffer of listeners never changes, and
\* a drain listener the application registers is appended at once to the
\* listeners of the transform, when there is one, and to those of the raw
\* transport otherwise.
C27_NoBufferingAfterDecision ==
  [][\A r \in Resp :
       decisions[r] >= 1 =>
         /\ listeners'[r] = listeners[r]
         /\ \A l \in AppDrainListeners :
              (l \notin Registered(r) /\ l \in Registered(r)') =>
                IF stream[r] # NoStream
                THEN zOn'[r] = Append(zOn[r], l) /\ resOn'[r] = resOn[r]
                ELSE resOn'[r] = Append(resOn[r], l) /\ zOn'[r] = zOn[r]]_vars

\* C27 witness: d1 was buffered and replayed onto the transform; d2, which
\* is not in the buffer, was registered on the transform after the decision.
C27_Witness ==
  /\ stream[1] # NoStream
  /\ listeners[1] = << <<"drain", "d1">> >>
  /\ zOn[1] = << <<"drain", "d1">>, <<"drain", "d2">> >>

\* C28: a listener for an event other than drain is never buffered and never
\* given to the transform; registering one appends it to the listeners of the
\* raw transport and changes neither the buffer nor the transform, in every
\* state of the response.
C28_OtherEvents ==
  /\ [](\A r \in Resp :
         /\ \A i \in 1..Len(zOn[r]) : zOn[r][i][1] = "drain"
         /\ listeners[r] # null =>
              \A i \in 1..Len(listeners[r]) : listeners[r][i][1] = "drain")
  /\ [][\A r \in Resp : \A l \in Listeners \ AppDrainListeners :
          (l \notin Registered(r) /\ l \in Registered(r)') =>
            /\ resOn'[r] = Append(resOn[r], l)
            /\ zOn'[r] = zOn[r]
            /\ listeners'[r] = listeners[r]]_vars

\* C28 witness: a compressed response has ended and finished, and the close
\* listener, registered after the decision, is on the raw transport.
C28_Witness ==
  /\ State(1) = "Compressing" /\ ended[1] /\ finished[1]
  /\ resOn[1] = << <<"drain", "onResponseDrain">>, <<"close", "c1">> >>

\* C29: while a response has a transform, the only drain listener of the raw
\* transport is onResponseDrain, every drain listener of the application is
\* among the listeners of the transform, and none of them has been invoked
\* by the raw transport.
C29_DrainListenersOnTransform ==
  \A r \in Resp :
    stream[r] # NoStream =>
      /\ ListenersOf(resOn[r], "drain") = {"onResponseDrain"}
      /\ \A l \in AppDrainListeners :
           /\ l \in Registered(r) => Count(zOn[r], l) = 1
           /\ <<l[2], "res">> \notin called[r]

\* C29 witness: d1, buffered before the decision, and d2, registered after
\* it, are on the transform and were invoked by its drain event.
C29_Witness ==
  /\ stream[1] # NoStream
  /\ zOn[1] = << <<"drain", "d1">>, <<"drain", "d2">> >>
  /\ listeners[1] = << <<"drain", "d1">> >>
  /\ called[1] = { <<"d1", "stream">>, <<"d2", "stream">> }
  /\ resOn[1] = << <<"drain", "onResponseDrain">> >>

\* C30: when a write on a response with a transform has returned false (the
\* transform owes a drain) and a drain listener of the application is on the
\* transform, then, the raw transport emitting the drains it owes and the
\* transform working whenever it flows, the listener is eventually invoked by
\* the drain of the transform, unless the application ends the response
\* instead of waiting.
C30_DrainReachesApplication ==
  \A r \in Resp :
    ( /\ stream[r] # NoStream /\ zNeedDrain[r] /\ ~ended[r]
      /\ Count(zOn[r], <<"drain", "d1">>) = 1 )
      ~> ( \/ ~zNeedDrain[r] /\ <<"d1", "stream">> \in called[r]
           \/ ended[r] )

\* C30 witness: the second write found the transform paused by the raw
\* transport and returned false; after the drains the listener has been
\* invoked and the response is still open.
C30_Witness ==
  /\ stream[1] # NoStream /\ writes[1] = MaxWrites + 1 /\ ~ended[1]
  /\ ~zNeedDrain[1] /\ <<"d1", "stream">> \in called[1]
  /\ ret[1] = "false" /\ ~paused[1] /\ ~needDrain[1]
  /\ zIn[1] = <<>> /\ zOut[1] = <<>> /\ Len(zEmitted[1]) >= 2

\* The calls of the original end among the calls of the raw transport.
EndCalls(r) == { i \in 1..Len(rawCalls[r]) : rawCalls[r][i].op = "end" }

\* C31: while a response has a transform, every call of the original end is
\* made by onStreamEnd, on the end event of the transform; it comes after
\* every call of the original write, and when it is made every chunk the
\* transform emitted has been passed to the original write and the transform
\* holds no input and no output.
C31_RawEndFromStreamEnd ==
  \A r \in Resp :
    stream[r] # NoStream =>
      /\ \A i \in EndCalls(r) :
           /\ rawCalls[r][i].via = "onStreamEnd"
           /\ i = Len(rawCalls[r])
           /\ zEnded[r] /\ ended[r]
      /\ finished[r] =>
           /\ WrittenData(rawCalls[r]) = zEmitted[r]
           /\ zIn[r] = <<>> /\ zOut[r] = <<>>
           /\ Concat(zEmitted[r]) = Encode(stream[r], Concat(zRecv[r]))

\* C31 witness: the application ended a compressed response with a chunk;
\* the raw transport was written to three times by onStreamData and then
\* ended by onStreamEnd.
C31_Witness ==
  /\ stream[1] # NoStream /\ finished[1] /\ Len(rawCalls[1]) = 4
  /\ rawCalls[1][4].op = "end" /\ rawCalls[1][4].via = "onStreamEnd"
  /\ Len(zEmitted[1]) = 3

\* C32: once the application has called end on a compressing response, the
\* raw transport is eventually ended, given that the raw transport emits
\* drain after a write that answered false and that the transform emits its
\* buffered output and then its end event.
C32_EndLeadsToFinished ==
  \A r \in Resp :
    (stream[r] # NoStream /\ ended[r]) ~> finished[r]

\* C32 witness: a compressing response was ended while the transform was
\* paused behind a raw write that answered false, and the raw transport has
\* been ended since.
C32_Witness ==
  /\ stream[1] # NoStream /\ ended[1] /\ finished[1]
  /\ writes[1] = MaxWrites + 1 /\ ~paused[1] /\ ~needDrain[1]
  /\ \E i \in 1..Len(rawCalls[1]) : rawCalls[1][i].op = "write"

\* Everything the model keeps for response r.
Own(r) ==
  << ended[r], length[r], listeners[r], stream[r], header[r], headers[r],
     rawCalls[r], finished[r], needDrain[r], resOn[r], zIn[r], zOut[r],
     zRecv[r], zEmitted[r], paused[r], zEnds[r], zEnded[r], zNeedDrain[r],
     zOn[r], zFlush[r], decisions[r], ret[r], called[r], appHeaders[r],
     appIn[r], writes[r], ends[r] >>

\* C33: with the operations of several responses interleaved, a step changes
\* the state of one response at most, and what a response holds follows from
\* its own history: its decision from its own headers and request, its ended
\* flag and pending length from its own end call, its transform from its own
\* input, its raw transport from its own transform, and its buffered
\* listeners from its own registrations.
C33_Isolation ==
  /\ [](\A r \in Resp :
         /\ decisions[r] >= 1 => (stream[r] # NoStream <=> OtherChecksPass(r))
         /\ ended[r] => ends[r] >= 1 /\ stream[r] # NoStream
         /\ length[r] # undefined => ends[r] >= 1
         /\ stream[r] # NoStream =>
              /\ Concat(zRecv[r]) = Concat(appIn[r])
              /\ IsPrefix(WrittenData(rawCalls[r]), zEmitted[r])
              /\ IsPrefix(Concat(zEmitted[r]),
                          Encode(stream[r], Concat(zRecv[r])))
         /\ stream[r] = NoStream => zOn[r] = <<>> /\ zIn[r] = <<>>
         /\ listeners[r] # null =>
              \A i \in 1..Len(listeners[r]) :
                listeners[r][i] \in Interleaved.listeners)
  /\ [][\A r, s \in Resp :
          (r # s /\ Own(r)' # Own(r)) => Own(s)' = Own(s)]_vars

\* C33 witness: two responses were written to in turn; the first is being
\* compressed and was ended, the second was declined and is still open.
C33_Witness ==
  /\ stream[1] # NoStream /\ ended[1] /\ writes[1] = 1 /\ ~finished[1]
  /\ decisions[2] = 1 /\ stream[2] = NoStream /\ writes[2] = 1
  /\ ~ended[2] /\ ends[2] = 0 /\ Len(rawCalls[2]) = 1

\* C34: shouldTransform answers false exactly when the value of Cache-Control
\* has an element, between commas or the ends of the value and with blanks
\* around it at most, that is the lower-case word no-transform.  Without the
\* header, with No-Transform in another case, and with a word that contains
\* no-transform, the transform stays allowed; a response that passes the
\* other checks is compressed exactly when it is allowed.
C34_NoTransformElement ==
  \A r \in Resp :
    LET h == appHeaders[r]
    IN  /\ shouldTransform(h) <=> ~NoTransformDirective(h)
        /\ ~hasHeader(h, "Cache-Control") => shouldTransform(h)
        /\ ( /\ hasHeader(h, "Cache-Control")
             /\ h["Cache-Control"] \in
                  { <<"No-Transform">>, <<"xno-transform">>,
                    <<"public", " ", "no-transform">> } ) => shouldTransform(h)
        /\ ( /\ hasHeader(h, "Cache-Control")
             /\ h["Cache-Control"] \in
                  { <<"no-transform">>, <<"public", ",", "no-transform">>,
                    <<" ", "no-transform", " ">>,
                    <<"no-transform", ",", "public">> } ) => ~shouldTransform(h)
        /\ decisions[r] >= 1 =>
             /\ stream[r] # NoStream <=> ~NoTransformDirective(h)
             /\ VaryCount(r) = 0 <=> NoTransformDirective(h)

\* C34 witness: "public,no-transform" was declined, and no Vary was added.
C34_Witness ==
  /\ decisions[1] = 1 /\ stream[1] = NoStream /\ listeners[1] = null
  /\ hasHeader(appHeaders[1], "Cache-Control")
  /\ appHeaders[1]["Cache-Control"] = <<"public", ",", "no-transform">>
  /\ ~hasHeader(headers[1], "Vary")

\* C35: a decided response whose application declared Content-Encoding:
\* identity and that passes every other check has a transform, and its
\* Content-Encoding header is the token of the transform, no longer identity.
C35_IdentityIsCompressed ==
  \A r \in Resp :
    ( /\ decisions[r] >= 1
      /\ hasHeader(appHeaders[r], "Content-Encoding")
      /\ appHeaders[r]["Content-Encoding"] = "identity"
      /\ filter(opts, appHeaders[r]) /\ ChecksAfterFilterPass(r) ) =>
      /\ stream[r] \in {"br", "gzip", "deflate"}
      /\ hasHeader(headers[r], "Content-Encoding")
      /\ headers[r]["Content-Encoding"] = stream[r]

\* C35 witness: the application declared identity and wrote a chunk; the
\* header now says gzip and the chunk went to the transform.
C35_Witness ==
  /\ hasHeader(appHeaders[1], "Content-Encoding")
  /\ appHeaders[1]["Content-Encoding"] = "identity"
  /\ decisions[1] = 1 /\ stream[1] = "gzip"
  /\ headers[1]["Content-Encoding"] = "gzip"
  /\ writes[1] = 1 /\ rawCalls[1] = <<>>

\* C36: in every state a response whose ended flag is set has a transform,
\* which its end call has ended; the flag is set only by a step in which the
\* application calls end and which leaves the response with a transform, so
\* never for a response that is Undecided or NoCompression; and once set it
\* stays set.
C36_EndedImpliesStream ==
  /\ [](\A r \in Resp :
         ended[r] => /\ stream[r] # NoStream
                     /\ State(r) = "Compressing"
                     /\ ends[r] >= 1 /\ zEnds[r] >= 1)
  /\ [][\A r \in Resp :
          /\ ended[r] => ended'[r]
          /\ (~ended[r] /\ ended'[r]) =>
               /\ ends'[r] = ends[r] + 1
               /\ stream'[r] # NoStream
               /\ zEnds'[r] = zEnds[r] + 1]_vars

\* C36 witness: the end call that made the decision set the flag for a
\* compressed response, whose transform has emitted its end since.
C36_Witness ==
  /\ ended[1] /\ stream[1] = "gzip" /\ writes[1] = 0 /\ ends[1] = 1
  /\ decisions[1] = 1 /\ zEnded[1] /\ finished[1]

\* C37: in every state, a response whose Content-Encoding header is br, gzip
\* or deflate (values only the middleware sets; the application sets a list
\* of field names as Vary, or none) lists Accept-Encoding in its Vary header.
C37_EncodingImpliesVary ==
  \A r \in Resp :
    ( /\ hasHeader(headers[r], "Content-Encoding")
      /\ headers[r]["Content-Encoding"] \in {"br", "gzip", "deflate"} ) =>
      /\ stream[r] = headers[r]["Content-Encoding"]
      /\ hasHeader(headers[r], "Vary")
      /\ \E i \in 1..Len(headers[r]["Vary"]) :
           headers[r]["Vary"][i] = "Accept-Encoding"

\* C37 witness: the application set Vary: Origin; the compressed response
\* carries Content-Encoding: gzip and Vary: Origin, Accept-Encoding.
C37_Witness ==
  /\ hasHeader(appHeaders[1], "Vary") /\ appHeaders[1]["Vary"] = <<"Origin">>
  /\ hasHeader(headers[1], "Content-Encoding")
  /\ headers[1]["Content-Encoding"] = "gzip"
  /\ headers[1]["Vary"] = <<"Origin", "Accept-Encoding">>

\* C38: whatever the application's write and end calls, the end of a
\* transform is called once at most, and so is the original end of a response
\* with a transform, by onStreamEnd; an end call on a response already ended
\* calls neither.
C38_EndsOnce ==
  /\ [](\A r \in Resp :
         stream[r] # NoStream =>
           /\ zEnds[r] <= 1
           /\ Cardinality(EndCalls(r)) <= 1
           /\ zEnds[r] = (IF ended[r] THEN 1 ELSE 0))
  /\ [][\A r \in Resp :
          (ended[r] /\ ends'[r] = ends[r] + 1) =>
            /\ zEnds'[r] = zEnds[r] /\ zIn'[r] = zIn[r]
            /\ rawCalls'[r] = rawCalls[r] /\ finished'[r] = finished[r]]_vars

\* C38 witness: the application called end twice on a compressed response;
\* the transform was ended once and the raw transport once.
C38_Witness ==
  /\ stream[1] # NoStream /\ ends[1] = MaxEnds /\ zEnds[1] = 1
  /\ finished[1] /\ Cardinality(EndCalls(1)) = 1

\* C39: a call of flush, or of on for any event, does not run
\* onResponseHeaders and does not send the headers; it leaves the ended flag,
\* the pending length, the headers, the transform and the decision state as
\* they were, and calls neither the original write nor the original end.  A
\* response leaves Undecided only in a step in which the application calls
\* write, end or writeHead.
C39_FlushAndOnFrame ==
  /\ [][\A r \in Resp :
          (AppFlush(r) \/ AppOn(r, Listeners)) =>
            /\ decisions'[r] = decisions[r] /\ header'[r] = header[r]
            /\ ended'[r] = ended[r] /\ length'[r] = length[r]
            /\ headers'[r] = headers[r] /\ stream'[r] = stream[r]
            /\ State(r)' = State(r)
            /\ rawCalls'[r] = rawCalls[r] /\ zEnds'[r] = zEnds[r]]_vars
  /\ [][\A r \in Resp :
          (State(r) = "Undecided" /\ State(r)' # "Undecided") =>
            \/ writes'[r] = writes[r] + 1
            \/ ends'[r] = ends[r] + 1
            \/ AppWriteHead(r)]_vars

\* C39 witness: the application registered its three listeners on a response
\* with a compressible type; the two for drain are buffered, the third is on
\* the raw transport, and the response is still Undecided, its headers unsent.
C39_Witness ==
  /\ State(1) = "Undecided" /\ decisions[1] = 0 /\ ~header[1]
  /\ listeners[1] = << <<"drain", "d1">>, <<"drain", "d2">> >>
  /\ resOn[1] = << <<"close", "c1">> >>
  /\ hasHeader(headers[1], "Content-Type")
  /\ headers[1] = appHeaders[1] /\ length[1] = undefined /\ ~ended[1]

====
